---------------------------- MODULE Spec2Model ----------------------------
(***************************************************************************)
(* Titan2.0 core-rust: the guardrail loan sizer (commander.rs), the        *)
(* OmniArb scoring functions (tar_scorer.rs, model_bridge.rs), the matrix  *)
(* loader, quote fetcher and ranking pipeline (matrix_parser.rs,           *)
(* data_fetcher.rs, omniarb_engine.rs) and the HTTP handlers               *)
(* (http_server.rs).                                                       *)
(*                                                                         *)
(* Number representations                                                  *)
(*   U256  - a little-endian sequence of base-1000 limbs without leading   *)
(*           zero limbs (zero is <<>>), so that the 256-bit width of       *)
(*           ethers' U256 is kept exactly; the checked `*` of U256 panics  *)
(*           on overflow and is modelled by a record [panic, v].           *)
(*   f64   - a fixed-point integer counting 1/10000 (FScale) for scores    *)
(*           and quote fields, 1/10000000 (ShareScale) for max_tvl_share.  *)
(*           The inputs are drawn from decimal grids on which every        *)
(*           product and quotient the code forms is exact.                 *)
(***************************************************************************)
EXTENDS Integers, Sequences, FiniteSets, TLC

(***************************************************************************)
(* Unsigned big integers (the value domain of U256 arithmetic)             *)
(***************************************************************************)
\* one limb holds three decimal digits
Base == 1000

RECURSIVE BigNorm(_)
\* drop the most significant limbs that are zero
BigNorm(na) ==
    IF na = <<>> THEN <<>>
    ELSE IF na[Len(na)] = 0 THEN BigNorm(SubSeq(na, 1, Len(na) - 1))
    ELSE na

RECURSIVE BigFromInt(_)
\* a natural number below 2^31 as limbs
BigFromInt(fi) ==
    IF fi = 0 THEN <<>> ELSE <<fi % Base>> \o BigFromInt(fi \div Base)

RECURSIVE BigAddC(_, _, _)
BigAddC(xa, xb, xc) ==
    IF xa = <<>> /\ xb = <<>>
    THEN (IF xc = 0 THEN <<>> ELSE <<xc>>)
    ELSE LET x0 == IF xa = <<>> THEN 0 ELSE Head(xa)
             y0 == IF xb = <<>> THEN 0 ELSE Head(xb)
             s0 == x0 + y0 + xc
         IN  <<s0 % Base>> \o BigAddC(IF xa = <<>> THEN <<>> ELSE Tail(xa),
                                      IF xb = <<>> THEN <<>> ELSE Tail(xb),
                                      s0 \div Base)

BigAdd(aa, ab) == BigNorm(BigAddC(aa, ab, 0))

RECURSIVE BigMulLimbC(_, _, _)
\* la times one limb lk (0 <= lk < Base)
BigMulLimbC(la, lk, lc) ==
    IF la = <<>>
    THEN (IF lc = 0 THEN <<>> ELSE <<lc>>)
    ELSE LET lp == Head(la) * lk + lc
         IN  <<lp % Base>> \o BigMulLimbC(Tail(la), lk, lp \div Base)

RECURSIVE BigMulRec(_, _)
\* schoolbook multiplication, one limb of mb at a time
BigMulRec(ma, mb) ==
    IF mb = <<>> THEN <<>>
    ELSE LET rest == BigMulRec(ma, Tail(mb))
         IN  BigAdd(BigNorm(BigMulLimbC(ma, Head(mb), 0)),
                    IF rest = <<>> THEN <<>> ELSE <<0>> \o rest)

\* the product, taken limb by limb over the shorter factor
BigMul(fa, fb) ==
    IF Len(fb) > Len(fa) THEN BigMulRec(fb, fa) ELSE BigMulRec(fa, fb)

RECURSIVE BigCmpFrom(_, _, _)
\* compares limbs ci, ci-1, .. 1 of two numbers of equal length: -1, 0 or 1
BigCmpFrom(ca, cb, ci) ==
    IF ci = 0 THEN 0
    ELSE IF ca[ci] < cb[ci] THEN -1
    ELSE IF ca[ci] > cb[ci] THEN 1
    ELSE BigCmpFrom(ca, cb, ci - 1)

BigCmp(pa, pb) ==
    IF Len(pa) < Len(pb) THEN -1
    ELSE IF Len(pa) > Len(pb) THEN 1
    ELSE BigCmpFrom(pa, pb, Len(pa))

BigLt(ta, tb) == BigCmp(ta, tb) < 0
BigLe(ea, eb) == BigCmp(ea, eb) <= 0
BigMin(ia, ib) == IF BigLt(ib, ia) THEN ib ELSE ia

RECURSIVE BigDivSmallFrom(_, _, _, _)
\* long division by dd (0 < dd <= 2000000) from limb di downward; the limbs
\* of the quotient come out most significant first and are returned
\* little-endian
BigDivSmallFrom(da, dd, di, dr) ==
    IF di = 0 THEN <<>>
    ELSE LET cur == dr * Base + da[di]
         IN  BigDivSmallFrom(da, dd, di - 1, cur % dd) \o <<cur \div dd>>

BigDivSmall(qa, qd) == BigNorm(BigDivSmallFrom(qa, qd, Len(qa), 0))

\* the predecessor of a positive number
RECURSIVE BigPredC(_)
BigPredC(ra) ==
    IF Head(ra) > 0 THEN <<Head(ra) - 1>> \o Tail(ra)
    ELSE <<Base - 1>> \o BigPredC(Tail(ra))

BigPred(sa) == BigNorm(BigPredC(sa))

\* 2^256 by repeated squaring of 2^16, and the largest U256
TwoPow16 == BigFromInt(65536)
TwoPow64 == BigMul(BigMul(TwoPow16, TwoPow16), BigMul(TwoPow16, TwoPow16))
TwoPow256 == BigMul(BigMul(TwoPow64, TwoPow64), BigMul(TwoPow64, TwoPow64))
U256_MAX == BigPred(TwoPow256)

(***************************************************************************)
(* U256: checked arithmetic.  `*` panics when the product needs more than  *)
(* 256 bits; a panic absorbs every later operation of the same expression. *)
(***************************************************************************)
U256Ok(ov) == [panic |-> FALSE, v |-> ov]
U256Panic == [panic |-> TRUE, v |-> <<>>]

U256_mul(ua, ub) ==
    IF ua.panic \/ ub.panic THEN U256Panic
    ELSE LET prod == BigMul(ua.v, ub.v)
         IN  IF BigLt(U256_MAX, prod) THEN U256Panic ELSE U256Ok(prod)

\* division by a small nonzero divisor never overflows
U256_div(va, vd) ==
    IF va.panic THEN U256Panic ELSE U256Ok(BigDivSmall(va.v, vd))

RECURSIVE U256_exp10_from(_, _, _)
\* 10^cnt as the chain 1 * 10 * 10 * .. that the recursion of exp10
\* multiplies out, innermost factor first; the first overflowing product
\* panics
U256_exp10_from(ii, cnt, accu) ==
    IF accu.panic \/ ii = cnt THEN accu
    ELSE LET nxt == U256_mul(accu, U256Ok(BigFromInt(10)))
         IN  U256_exp10_from(ii + 1, cnt, nxt)

U256_exp10(ex) == U256_exp10_from(0, ex, U256Ok(BigFromInt(1)))

(***************************************************************************)
(* f64 values                                                              *)
(***************************************************************************)
\* max_tvl_share is counted in ShareScale-ths, every other f64 in FScale-ths
ShareScale == 10000000
FScale == 10000

\* (share * 1000000.0) as u128: the product, share / ShareScale * 1000000,
\* truncated toward zero, the cast saturating at 0 for a negative product
F64ToMillionths(share) ==
    IF share <= 0 THEN 0 ELSE share \div (ShareScale \div 1000000)

\* the f64 that is not a number; every other f64 of the scorers is a
\* multiple of 1/FScale well below it
NaN == 2000000000

\* whole numbers and hundredths as f64
F(whole) == whole * FScale
F100(hundredths) == hundredths * (FScale \div 100)

\* a NaN carries a sign bit: the NaN above is the positive one (f64::NAN,
\* and what "NaN" parses to), this is the negative one
NegNaN == 0 - NaN
is_nan(zx) == zx = NaN \/ zx = NegNaN

\* f64 arithmetic: NaN in, NaN out
f64_add(pxa, pxb) ==
    IF is_nan(pxa) THEN pxa ELSE IF is_nan(pxb) THEN pxb ELSE pxa + pxb
f64_sub(sxa, sxb) ==
    IF is_nan(sxa) THEN sxa ELSE IF is_nan(sxb) THEN sxb ELSE sxa - sxb
\* x * k and x / k for a literal k, and x * (num/10) for a literal 0.1 .. 0.9
f64_mul_lit(mxa, mk) == IF is_nan(mxa) THEN mxa ELSE mxa * mk
f64_div_lit(dxa, dk) == IF is_nan(dxa) THEN dxa ELSE dxa \div dk
f64_mul_tenths(txa, tnum) ==
    IF is_nan(txa) THEN txa ELSE (txa * tnum) \div 10
\* x * (h/100) for a literal such as 1.15
f64_mul_hundredths(hxa, hnum) ==
    IF is_nan(hxa) THEN hxa ELSE (hxa * hnum) \div 100
\* x * k for a large literal k, the product counted in whole units
f64_mul_lit_whole(wxa, wk) ==
    IF is_nan(wxa) THEN wxa
    ELSE (wxa \div FScale) * wk + ((wxa % FScale) * wk) \div FScale
\* f64 comparison: false when either side is NaN
f64_lt(lxa, lxb) == ~is_nan(lxa) /\ ~is_nan(lxb) /\ lxa < lxb
f64_gt(gxa, gxb) == ~is_nan(gxa) /\ ~is_nan(gxb) /\ gxa > gxb
f64_ge(exa, exb) == ~is_nan(exa) /\ ~is_nan(exb) /\ exa >= exb
\* f64::min and f64::max: with one NaN operand, the other operand
f64_min(nxa, nxb) ==
    IF is_nan(nxa) THEN nxb ELSE IF is_nan(nxb) THEN nxa
    ELSE IF nxb < nxa THEN nxb ELSE nxa
f64_max(oxa, oxb) ==
    IF is_nan(oxa) THEN oxb ELSE IF is_nan(oxb) THEN oxa
    ELSE IF oxb > oxa THEN oxb ELSE oxa
\* f64::total_cmp, as -1, 0, 1: negative NaN, then the numbers in their
\* order, then positive NaN
total_cmp(cxa, cxb) == IF cxa < cxb THEN -1 ELSE IF cxa > cxb THEN 1 ELSE 0

(***************************************************************************)
(* State                                                                   *)
(***************************************************************************)
VARIABLES
    \* TitanCommander: the guardrails of the instance
    min_loan_usd,
    max_tvl_share,
    slippage_tolerance,
    \* one invocation of optimize_loan_size: where it stands, its arguments,
    \* the outcome of the balance_of call, what get_provider_tvl returned to
    \* it, the number of liquidity reads it made, its local max_cap, and its
    \* result
    pc,
    target_amount_raw,
    decimals,
    balance_call,
    tvl,
    reads,
    max_cap,
    result

sizerVars == <<min_loan_usd, max_tvl_share, slippage_tolerance, pc,
               target_amount_raw, decimals, balance_call, tvl, reads,
               max_cap, result>>

VARIABLES
    \* the scoring closure of omniarb_engine on one (entry, quote) pair: the
    \* pair, where the closure stands, the three parts calculate_tar_score
    \* adds up, and the three scores of the route
    entry,
    quote,
    spc,
    token_score,
    arb_score,
    risk_score,
    score,
    model_pred_tar,
    model_pred_flank

scoreVars == <<entry, quote, spc, token_score, arb_score, risk_score, score,
               model_pred_tar, model_pred_flank>>

VARIABLES
    \* main of omniarb_engine: where it stands, the loaded matrix, the
    \* quotes fetched for it, the scored routes, the filtered (then sorted)
    \* routes, the rows printed, and the two summary figures printed
    epc,
    token_matrix,
    live_quotes,
    scored_routes,
    top_opportunities,
    presented,
    stat_count,
    stat_mean

engineVars == <<epc, token_matrix, live_quotes, scored_routes,
                top_opportunities, presented, stat_count, stat_mean>>

VARIABLES
    \* load_token_matrix: where it stands, the lines of the file, the number
    \* of lines read, its locals in_data_section and entries, the warnings
    \* written to stderr, and what it returned
    lpc,
    file_lines,
    lines_read,
    in_data_section,
    entries,
    warnings,
    load_result

loaderVars == <<lpc, file_lines, lines_read, in_data_section, entries,
                warnings, load_result>>

\* what each part of the program leaves alone
VARIABLES
    \* the HTTP server: where the handler of the request in hand stands, the
    \* request, the response sent, the liquidity reads made for the request,
    \* the outcome of the last of them, and the configuration held in AppState
    hpc,
    request,
    response,
    liquidity_reads,
    read_outcome,
    app_config

httpVars == <<hpc, request, response, liquidity_reads, read_outcome, app_config>>

VARIABLES
    \* the ProviderManager shared behind Arc<RwLock<..>>: the tasks holding
    \* its lock, its map providers, the providers created so far (a provider
    \* is known by its position in this list), and for each task where its
    \* call of get_provider stands, its arguments and what it was given
    lock_holders,
    providers,
    created,
    task

managerVars == <<lock_holders, providers, created, task>>

nonSizerVars == <<scoreVars, engineVars, loaderVars, httpVars, managerVars>>
nonScoreVars == <<sizerVars, engineVars, loaderVars, httpVars, managerVars>>
nonEngineVars == <<sizerVars, scoreVars, loaderVars, httpVars, managerVars>>
nonLoaderVars == <<sizerVars, scoreVars, engineVars, httpVars, managerVars>>
nonHttpSizerVars == <<scoreVars, engineVars, loaderVars, managerVars>>
nonManagerVars == <<sizerVars, scoreVars, engineVars, loaderVars, httpVars>>

None == [kind |-> "none"]

\* the tasks that may call get_provider at the same time
MaxTasks == 2
Tasks == 1..MaxTasks

TaskIdle == [pc |-> "idle"]

\* ProviderManager::new(): an empty map, nobody holding the lock
ManagerIdle ==
    /\ lock_holders = {}
    /\ providers = <<>>
    /\ created = <<>>
    /\ task = [t \in Tasks |-> TaskIdle]

\* the HTTP server is not running
HttpIdle ==
    /\ hpc = "off"
    /\ request = None
    /\ response = None
    /\ liquidity_reads = 0
    /\ read_outcome = None
    /\ app_config = None

(***************************************************************************)
(* Inputs                                                                  *)
(***************************************************************************)
\* requested amounts: 250-unit steps up to ReqSteps, each also one less,
\* in raw units and scaled by 10^18, and the largest U256
ReqSteps == 2
\* pool balances: 1250-unit steps up to PoolSteps, each also one less
PoolSteps == 2

Scales == {BigFromInt(1), U256_exp10(18).v}

ReqMantissas ==
    {m \in {250 * j - d : j \in 0..ReqSteps, d \in {0, 1}} : m >= 0}

PoolMantissas ==
    {m \in {1250 * j - d : j \in 1..PoolSteps, d \in {0, 1}} : m > 0}

AmountSample ==
    {BigMul(BigFromInt(m), sc) : m \in ReqMantissas, sc \in Scales}
        \cup {U256_MAX}

\* nonzero balances; 10^6 is the pool of test_max_cap_calculation, 10^72
\* times 200000 no longer fits 256 bits
BalanceSample ==
    {BigMul(BigFromInt(m), sc) : m \in PoolMantissas, sc \in Scales}
        \cup {BigFromInt(1000000), U256_exp10(72).v, U256_MAX}

\* decimals is a u8; 74 is the last value whose floor fits 256 bits
DecimalsSample == {0, 18, 74, 75, 255}

\* -0.5, 0, 0.0000005, 0.2, 1.0, 1.5
ShareSample == {-5000000, 0, 5, 2000000, 10000000, 15000000}
MinLoanSample == {10000, 50000}
\* 0.995, 0.99
SlippageSample == {9950, 9900}

\* the outcomes of the eth_call behind balance_of
BalanceCallOutcomes ==
    {[ok |-> TRUE, balance |-> b] : b \in BalanceSample \cup {<<>>}}
        \cup {[ok |-> FALSE, balance |-> <<>>]}

(***************************************************************************)
(* simulation_engine.rs                                                    *)
(***************************************************************************)
\* get_provider_tvl: a failed balance_of call is reported as Ok(0)
get_provider_tvl(call) ==
    IF call.ok THEN [ok |-> TRUE, v |-> call.balance]
    ELSE [ok |-> TRUE, v |-> <<>>]

(***************************************************************************)
(* commander.rs                                                            *)
(***************************************************************************)
SizedOk(amount) == [outcome |-> "Ok", amount |-> amount]
SizedPanic == [outcome |-> "Panic", amount |-> <<>>]

\* a variant that derives the floor from min_loan_usd (10000 gives 500)
calculate_min_floor_of_min_loan(dec) ==
    U256_mul(U256Ok(BigFromInt(min_loan_usd \div 20)), U256_exp10(dec))

\* U256::from(500) * U256::exp10(decimals)
calculate_min_floor(dec) ==
    U256_mul(U256Ok(BigFromInt(500)), U256_exp10(dec))

\* mutant: the division by 1000000 is forgotten
calculate_max_cap_no_div(share, pool_liquidity) ==
    U256_mul(U256Ok(pool_liquidity),
             U256Ok(BigFromInt(F64ToMillionths(share))))

\* mutant: the pool is divided by 1000000 before it is multiplied
calculate_max_cap_div_first(share, pool_liquidity) ==
    U256_mul(U256_div(U256Ok(pool_liquidity), 1000000),
             U256Ok(BigFromInt(F64ToMillionths(share))))

\* pool_liquidity * U256::from(multiplier) / U256::from(1000000)
calculate_max_cap(share, pool_liquidity) ==
    LET multiplier == F64ToMillionths(share)
    IN  U256_div(U256_mul(U256Ok(pool_liquidity),
                          U256Ok(BigFromInt(multiplier))),
                 1000000)

\* the floors of the sampled decimals, computed once
MinFloorOf == [d \in DecimalsSample |-> calculate_min_floor(d)]

\* mutant: an amount equal to the floor is rejected
validate_paper_mode_amount_le(requested_amount, dec) ==
    LET min_floor == MinFloorOf[dec]
    IN  IF min_floor.panic THEN SizedPanic
        ELSE IF BigLe(requested_amount, min_floor.v)
             THEN SizedOk(<<>>)
             ELSE SizedOk(requested_amount)

validate_paper_mode_amount(requested_amount, dec) ==
    LET min_floor == MinFloorOf[dec]
    IN  IF min_floor.panic THEN SizedPanic
        ELSE IF BigLt(requested_amount, min_floor.v)
             THEN SizedOk(<<>>)
             ELSE SizedOk(requested_amount)

\* the path optimize_loan_size takes once get_provider_tvl has answered
PaperMode(provider_tvl) == ~provider_tvl.ok \/ provider_tvl.v = <<>>

\* mutant: the floor check runs on the request, before the cap is applied
apply_guards_floor_first(cap, target, dec) ==
    IF cap.panic THEN SizedPanic
    ELSE LET min_floor == MinFloorOf[dec]
         IN  IF min_floor.panic THEN SizedPanic
             ELSE IF BigLt(target, min_floor.v) THEN SizedOk(<<>>)
             ELSE IF BigLt(cap.v, target) THEN SizedOk(cap.v)
             ELSE SizedOk(target)

\* a variant that raises an amount below the floor to the floor
apply_guards_raise_to_floor(cap, target, dec) ==
    IF cap.panic THEN SizedPanic
    ELSE LET requested_amount ==
                 IF BigLt(cap.v, target) THEN cap.v ELSE target
             min_floor == MinFloorOf[dec]
         IN  IF min_floor.panic THEN SizedPanic
             ELSE IF BigLt(requested_amount, min_floor.v)
                  THEN SizedOk(min_floor.v)
                  ELSE SizedOk(requested_amount)

\* GUARD 1 and GUARD 2, given the cap
apply_guards(cap, target, dec) ==
    IF cap.panic THEN SizedPanic
    ELSE LET requested_amount ==
                 IF BigLt(cap.v, target) THEN cap.v ELSE target
             min_floor == MinFloorOf[dec]
         IN  IF min_floor.panic THEN SizedPanic
             ELSE IF BigLt(requested_amount, min_floor.v)
                  THEN SizedOk(<<>>)
                  ELSE SizedOk(requested_amount)

\* optimize_loan_size from the point get_provider_tvl has answered
optimize_loan_size(share, provider_tvl, target, dec) ==
    IF ~provider_tvl.ok
    THEN validate_paper_mode_amount(target, dec)
    ELSE IF provider_tvl.v = <<>>
    THEN validate_paper_mode_amount(target, dec)
    ELSE apply_guards(calculate_max_cap(share, provider_tvl.v), target, dec)

\* TitanCommander::new
InitSizer ==
    /\ min_loan_usd = 10000
    /\ max_tvl_share = 2000000
    /\ slippage_tolerance = 9950
    /\ pc = "idle"
    /\ target_amount_raw = <<>>
    /\ decimals = 0
    /\ balance_call = None
    /\ tvl = None
    /\ reads = 0
    /\ max_cap = None
    /\ result = None

\* the setters take &mut self: none runs while a sizing call borrows self
set_min_loan_usd(min_usd) ==
    /\ pc = "idle"
    /\ min_loan_usd' = min_usd
    /\ UNCHANGED <<max_tvl_share, slippage_tolerance, pc, target_amount_raw,
                   decimals, balance_call, tvl, reads, max_cap, result>>
    /\ UNCHANGED nonSizerVars

\* a variant of the setter that can run while a sizing call is suspended
set_max_tvl_share_any_time(share) ==
    /\ max_tvl_share' = share
    /\ UNCHANGED <<min_loan_usd, slippage_tolerance, pc, target_amount_raw,
                   decimals, balance_call, tvl, reads, max_cap, result>>
    /\ UNCHANGED nonSizerVars

set_max_tvl_share(share) ==
    /\ pc = "idle"
    /\ max_tvl_share' = share
    /\ UNCHANGED <<min_loan_usd, slippage_tolerance, pc, target_amount_raw,
                   decimals, balance_call, tvl, reads, max_cap, result>>
    /\ UNCHANGED nonSizerVars

set_slippage_tolerance(tolerance) ==
    /\ pc = "idle"
    /\ slippage_tolerance' = tolerance
    /\ UNCHANGED <<min_loan_usd, max_tvl_share, pc, target_amount_raw,
                   decimals, balance_call, tvl, reads, max_cap, result>>
    /\ UNCHANGED nonSizerVars

\* optimize_loan_size up to its await: the vault address parses, and the
\* call suspends on get_provider_tvl
OptimizeLoanSizeCall(target, dec) ==
    /\ pc = "idle"
    /\ pc' = "await_tvl"
    /\ target_amount_raw' = target
    /\ decimals' = dec
    /\ balance_call' = None
    /\ tvl' = None
    /\ reads' = 0
    /\ max_cap' = None
    /\ result' = None
    /\ UNCHANGED <<min_loan_usd, max_tvl_share, slippage_tolerance>>
    /\ UNCHANGED nonSizerVars

\* a variant in which a failed balance_of call is made a second time
GetProviderTvl_retry(call) ==
    /\ pc = "await_tvl"
    /\ pc' = "resumed"
    /\ balance_call' = call
    /\ tvl' = get_provider_tvl(call)
    /\ reads' = IF call.ok THEN reads + 1 ELSE reads + 2
    /\ UNCHANGED <<min_loan_usd, max_tvl_share, slippage_tolerance,
                   target_amount_raw, decimals, max_cap, result>>
    /\ UNCHANGED nonSizerVars

\* get_provider_tvl runs: one balance_of call, whose outcome the chain decides
GetProviderTvl(call) ==
    /\ pc = "await_tvl"
    /\ pc' = "resumed"
    /\ balance_call' = call
    /\ tvl' = get_provider_tvl(call)
    /\ reads' = reads + 1
    /\ UNCHANGED <<min_loan_usd, max_tvl_share, slippage_tolerance,
                   target_amount_raw, decimals, max_cap, result>>
    /\ UNCHANGED nonSizerVars

\* optimize_loan_size from its await to its return (or its panic)
OptimizeLoanSizeResume ==
    /\ pc = "resumed"
    /\ max_cap' = IF PaperMode(tvl) THEN None
                  ELSE calculate_max_cap(max_tvl_share, tvl.v)
    /\ LET r == optimize_loan_size(max_tvl_share, tvl, target_amount_raw,
                                   decimals)
       IN  /\ result' = r
           /\ pc' = IF r.outcome = "Panic" THEN "panicked" ELSE "returned"
    /\ UNCHANGED <<min_loan_usd, max_tvl_share, slippage_tolerance,
                   target_amount_raw, decimals, balance_call, tvl, reads>>
    /\ UNCHANGED nonSizerVars

\* the caller takes the result and the call's frame is gone; the commander
\* is free for the next call
OptimizeLoanSizeDone ==
    /\ pc = "returned"
    /\ pc' = "idle"
    /\ target_amount_raw' = <<>>
    /\ decimals' = 0
    /\ balance_call' = None
    /\ tvl' = None
    /\ reads' = 0
    /\ max_cap' = None
    /\ result' = None
    /\ UNCHANGED <<min_loan_usd, max_tvl_share, slippage_tolerance>>
    /\ UNCHANGED nonSizerVars

(***************************************************************************)
(* omniarb/tar_scorer.rs                                                   *)
(***************************************************************************)
TIER_1_TOKENS == {"USDC", "USDT", "DAI", "ETH", "WETH", "WBTC"}
TIER_2_TOKENS == {"MATIC", "AVAX", "BNB", "OP", "ARB", "LINK"}
TIER_1_BRIDGES == {"STARGATE", "ACROSS", "CCIP", "LIFI"}
TIER_2_BRIDGES == {"HOP", "SYNAPSE", "SOCKET", "LAYERZERO"}

\* tier points plus (liquidity_score / 100.0) * 15.0
calculate_token_quality(token, liquidity_score) ==
    LET tier == IF token \in TIER_1_TOKENS THEN F(20)
                ELSE IF token \in TIER_2_TOKENS THEN F(12)
                ELSE F(5)
    IN  f64_add(tier, f64_mul_lit(f64_div_lit(liquidity_score, 100), 15))

\* mutant: a fee on a threshold falls into the higher band
calculate_arbitrage_efficiency_le(fee_le, spread_le) ==
    LET fee_points == IF fee_le # NaN /\ fee_le <= F100(15) THEN F(15)
                      ELSE IF fee_le # NaN /\ fee_le <= F100(30) THEN F(10)
                      ELSE IF fee_le # NaN /\ fee_le <= F100(50) THEN F(5)
                      ELSE 0
        spread_points == IF f64_gt(spread_le, F100(200)) THEN F(20)
                         ELSE IF f64_gt(spread_le, F100(100)) THEN F(15)
                         ELSE IF f64_gt(spread_le, F100(50)) THEN F(10)
                         ELSE IF f64_gt(spread_le, F100(20)) THEN F(5)
                         ELSE 0
    IN  f64_add(fee_points, spread_points)

calculate_arbitrage_efficiency(fee_tier, spread_percentage) ==
    LET fee_points == IF f64_lt(fee_tier, F100(15)) THEN F(15)
                      ELSE IF f64_lt(fee_tier, F100(30)) THEN F(10)
                      ELSE IF f64_lt(fee_tier, F100(50)) THEN F(5)
                      ELSE 0
        spread_points == IF f64_gt(spread_percentage, F100(200)) THEN F(20)
                         ELSE IF f64_gt(spread_percentage, F100(100)) THEN F(15)
                         ELSE IF f64_gt(spread_percentage, F100(50)) THEN F(10)
                         ELSE IF f64_gt(spread_percentage, F100(20)) THEN F(5)
                         ELSE 0
    IN  f64_add(fee_points, spread_points)

calculate_risk_score(bridge, slippage) ==
    LET bridge_points == IF bridge \in TIER_1_BRIDGES THEN F(15)
                         ELSE IF bridge \in TIER_2_BRIDGES THEN F(10)
                         ELSE F(5)
        slippage_points == IF f64_lt(slippage, F100(50)) THEN F(15)
                           ELSE IF f64_lt(slippage, F100(100)) THEN F(10)
                           ELSE IF f64_lt(slippage, F100(200)) THEN F(5)
                           ELSE 0
    IN  f64_add(bridge_points, slippage_points)

\* the three parts added up in order from 0.0, then score.min(100.0)
calculate_tar_score(tar_entry, tar_quote) ==
    LET t_part == calculate_token_quality(tar_entry.native_token,
                                          tar_entry.liquidity_score)
        a_part == calculate_arbitrage_efficiency(
                      tar_entry.fee_tier, tar_quote.spread_percentage)
        r_part == calculate_risk_score(tar_entry.bridge_protocol,
                                       tar_quote.slippage_estimate)
    IN  f64_min(f64_add(f64_add(f64_add(0, t_part), a_part), r_part), F(100))

(***************************************************************************)
(* omniarb/model_bridge.rs                                                 *)
(***************************************************************************)
get_bridge_score(bridge_name) ==
    IF bridge_name \in {"STARGATE", "ACROSS", "CCIP"} THEN F(90)
    ELSE IF bridge_name \in {"HOP", "SYNAPSE", "LIFI", "SOCKET"} THEN F(75)
    ELSE IF bridge_name \in {"LAYERZERO", "CELER"} THEN F(65)
    ELSE F(50)

get_token_score(token_name) ==
    IF token_name \in {"USDC", "USDT", "DAI"} THEN F(95)
    ELSE IF token_name \in {"ETH", "WETH", "WBTC"} THEN F(90)
    ELSE IF token_name \in {"MATIC", "AVAX", "BNB", "OP", "ARB"} THEN F(80)
    ELSE IF token_name \in {"LINK", "UNI", "AAVE"} THEN F(75)
    ELSE F(60)

extract_features(feat_entry, feat_quote) ==
    [liquidity_score |-> feat_entry.liquidity_score,
     spread_score |->
         f64_min(f64_mul_lit(feat_quote.spread_percentage, 20), F(100)),
     bridge_score |-> get_bridge_score(feat_entry.bridge_protocol),
     token_score |-> get_token_score(feat_entry.native_token),
     slippage_penalty |-> f64_mul_lit(feat_quote.slippage_estimate, 50),
     gas_efficiency |->
         f64_mul_lit(
             f64_div_lit(
                 f64_sub(F(20), f64_min(feat_quote.gas_cost_usd, F(20))),
                 20),
             100)]

\* mutant: the prediction is capped at 100 but not floored at 0
run_tar_onnx_no_floor(onnx_entry_nf, onnx_quote_nf) ==
    LET features == extract_features(onnx_entry_nf, onnx_quote_nf)
        prediction ==
            f64_add(f64_add(f64_add(
                f64_mul_tenths(features.liquidity_score, 3),
                f64_mul_tenths(features.spread_score, 3)),
                f64_mul_tenths(features.bridge_score, 2)),
                f64_mul_tenths(features.token_score, 2))
    IN  f64_min(prediction, F(100))

run_tar_onnx(onnx_entry, onnx_quote) ==
    LET features == extract_features(onnx_entry, onnx_quote)
        prediction ==
            f64_add(f64_add(f64_add(
                f64_mul_tenths(features.liquidity_score, 3),
                f64_mul_tenths(features.spread_score, 3)),
                f64_mul_tenths(features.bridge_score, 2)),
                f64_mul_tenths(features.token_score, 2))
    IN  f64_max(f64_min(prediction, F(100)), 0)

run_flanker(flank_entry, flank_quote) ==
    LET features == extract_features(flank_entry, flank_quote)
        prediction ==
            f64_add(f64_add(f64_add(
                f64_mul_tenths(features.bridge_score, 4),
                f64_mul_tenths(features.liquidity_score, 3)),
                f64_mul_tenths(f64_sub(F(100), features.slippage_penalty), 2)),
                f64_mul_tenths(features.gas_efficiency, 1))
    IN  f64_max(f64_min(prediction, F(100)), 0)

(***************************************************************************)
(* omniarb/matrix_parser.rs                                                *)
(***************************************************************************)
\* A line of the file is the sequence of the strings its commas separate
\* (a line without a comma is one string), which is what split(',') gives
\* back. The string functions are given on the strings the sampled lines
\* are made of.

\* str::trim on a line: whitespace goes from the front of its first string
\* and from the back of its last one, nowhere else
trim_start(ts_str) ==
    CASE ts_str = " " -> ""
      [] ts_str = " 10" -> "10"
      [] ts_str = " 137" -> "137"
      [] OTHER -> ts_str

trim_end(te_str) ==
    CASE te_str = " " -> ""
      [] te_str = "0.1 " -> "0.1"
      [] OTHER -> te_str

trim(trim_line) ==
    [i \in 1..Len(trim_line) |->
        LET front == IF i = 1 THEN trim_start(trim_line[i]) ELSE trim_line[i]
        IN  IF i = Len(trim_line) THEN trim_end(front) ELSE front]

\* trimmed.is_empty()
is_empty(emp_line) == emp_line = <<"">>

\* trimmed.contains("## Data Entries")
contains_marker(mk_line) ==
    \E i \in 1..Len(mk_line) : mk_line[i] = "## Data Entries"

\* trimmed.starts_with('#') || trimmed.starts_with("chain_origin")
starts_with_hash_or_header(hh_line) ==
    \/ hh_line[1] \in {"## Data Entries", "# note"}
    \/ hh_line[1] = "chain_origin"

ParsedOk(parsed_value) == [ok |-> TRUE, value |-> parsed_value]
ParseErr == [ok |-> FALSE]

\* str::parse::<u64>: decimal digits only
parse_u64(pu_str) ==
    CASE pu_str = "1" -> ParsedOk(1)
      [] pu_str = "10" -> ParsedOk(10)
      [] pu_str = "56" -> ParsedOk(56)
      [] pu_str = "137" -> ParsedOk(137)
      [] pu_str = "95" -> ParsedOk(95)
      [] OTHER -> ParseErr

\* str::parse::<f64>: decimal numbers with an optional sign, and NaN
parse_f64(pf_str) ==
    CASE pf_str = "1" -> ParsedOk(F(1))
      [] pf_str = "10" -> ParsedOk(F(10))
      [] pf_str = "56" -> ParsedOk(F(56))
      [] pf_str = "137" -> ParsedOk(F(137))
      [] pf_str = "95" -> ParsedOk(F(95))
      [] pf_str = "0.1" -> ParsedOk(F100(10))
      [] pf_str = "0.3" -> ParsedOk(F100(30))
      [] pf_str = "-5" -> ParsedOk(F(-5))
      [] pf_str = "NaN" -> ParsedOk(NaN)
      [] OTHER -> ParseErr

\* .unwrap_or_else(|e| { eprintln!("Warning: ..."); default })
unwrap_or_default(uw_parsed, uw_default) ==
    IF uw_parsed.ok THEN uw_parsed.value ELSE uw_default

\* the warnings one 8-field row adds, in the order the fields are parsed
row_warnings(rw_fields) ==
    (IF parse_u64(rw_fields[1]).ok THEN <<>>
     ELSE <<[name |-> "chain_origin", text |-> rw_fields[1]]>>)
    \o (IF parse_u64(rw_fields[2]).ok THEN <<>>
        ELSE <<[name |-> "chain_dest", text |-> rw_fields[2]]>>)
    \o (IF parse_f64(rw_fields[7]).ok THEN <<>>
        ELSE <<[name |-> "liquidity_score", text |-> rw_fields[7]]>>)
    \o (IF parse_f64(rw_fields[8]).ok THEN <<>>
        ELSE <<[name |-> "fee_tier", text |-> rw_fields[8]]>>)

\* a variant in which one unparsable numeric field resets all four
row_entry_all_or_nothing(re_fields) ==
    LET all_ok == /\ parse_u64(re_fields[1]).ok /\ parse_u64(re_fields[2]).ok
                  /\ parse_f64(re_fields[7]).ok /\ parse_f64(re_fields[8]).ok
    IN  [chain_origin |-> IF all_ok THEN parse_u64(re_fields[1]).value ELSE 0,
         chain_dest |-> IF all_ok THEN parse_u64(re_fields[2]).value ELSE 0,
         native_token |-> re_fields[3],
         dex_origin |-> re_fields[4],
         dex_dest |-> re_fields[5],
         bridge_protocol |-> re_fields[6],
         liquidity_score |-> IF all_ok THEN parse_f64(re_fields[7]).value ELSE 0,
         fee_tier |-> IF all_ok THEN parse_f64(re_fields[8]).value ELSE 0]

\* the TokenEntry built from an 8-field row
row_entry(re_fields) ==
    [chain_origin |-> unwrap_or_default(parse_u64(re_fields[1]), 0),
     chain_dest |-> unwrap_or_default(parse_u64(re_fields[2]), 0),
     native_token |-> re_fields[3],
     dex_origin |-> re_fields[4],
     dex_dest |-> re_fields[5],
     bridge_protocol |-> re_fields[6],
     liquidity_score |-> unwrap_or_default(parse_f64(re_fields[7]), 0),
     fee_tier |-> unwrap_or_default(parse_f64(re_fields[8]), 0)]

\* a variant of the loop body that takes every row of 8 fields or more
loop_body_at_least_8(lb_line, lb_in_section, lb_entries, lb_warnings) ==
    LET trimmed == trim(lb_line)
        same == [section |-> lb_in_section, entries |-> lb_entries,
                 warnings |-> lb_warnings]
    IN  IF is_empty(trimmed) THEN same
        ELSE IF contains_marker(trimmed)
        THEN [same EXCEPT !.section = TRUE]
        ELSE IF ~lb_in_section THEN same
        ELSE IF starts_with_hash_or_header(trimmed) THEN same
        ELSE IF Len(trimmed) >= 8
        THEN [section |-> lb_in_section,
              entries |-> Append(lb_entries, row_entry(trimmed)),
              warnings |-> lb_warnings \o row_warnings(trimmed)]
        ELSE same

\* the body of the for loop on one line that was read: the new values of
\* in_data_section, entries and the warnings
loop_body(lb_line, lb_in_section, lb_entries, lb_warnings) ==
    LET trimmed == trim(lb_line)
        same == [section |-> lb_in_section, entries |-> lb_entries,
                 warnings |-> lb_warnings]
    IN  IF is_empty(trimmed) THEN same
        ELSE IF contains_marker(trimmed)
        THEN [same EXCEPT !.section = TRUE]
        ELSE IF ~lb_in_section THEN same
        ELSE IF starts_with_hash_or_header(trimmed) THEN same
        ELSE IF Len(trimmed) = 8
        THEN [section |-> lb_in_section,
              entries |-> Append(lb_entries, row_entry(trimmed)),
              warnings |-> lb_warnings \o row_warnings(trimmed)]
        ELSE same

(***************************************************************************)
(* omniarb/data_fetcher.rs                                                 *)
(***************************************************************************)
\* 1.0, 1.1 or 1.3, in hundredths
get_token_volatility(vol_token) ==
    IF vol_token \in {"USDC", "USDT", "DAI"} THEN 100
    ELSE IF vol_token \in {"ETH", "WETH", "WBTC"} THEN 110
    ELSE 130

\* 1.15, 1.0 or 0.9, in hundredths
get_bridge_efficiency(eff_bridge) ==
    IF eff_bridge \in {"STARGATE", "ACROSS", "CCIP"} THEN 115
    ELSE IF eff_bridge \in {"HOP", "SYNAPSE", "LIFI"} THEN 100
    ELSE 90

estimate_gas_cost(gas_chain_id) ==
    IF gas_chain_id = 1 THEN F100(1500)
    ELSE IF gas_chain_id = 137 THEN F100(50)
    ELSE IF gas_chain_id = 42161 THEN F100(80)
    ELSE IF gas_chain_id = 10 THEN F100(100)
    ELSE IF gas_chain_id = 8453 THEN F100(50)
    ELSE IF gas_chain_id = 56 THEN F100(30)
    ELSE IF gas_chain_id = 43114 THEN F100(200)
    ELSE F100(500)

\* available_liquidity is counted in whole units, the other fields in
\* 1/FScale
simulate_bridge_quote(sim_entry) ==
    LET base_spread ==
            f64_sub(f64_mul_lit(f64_div_lit(sim_entry.liquidity_score, 100), 2),
                    sim_entry.fee_tier)
        token_factor == get_token_volatility(sim_entry.native_token)
        bridge_factor == get_bridge_efficiency(sim_entry.bridge_protocol)
        spread ==
            f64_max(f64_mul_hundredths(
                        f64_mul_hundredths(base_spread, token_factor),
                        bridge_factor),
                    0)
        slippage ==
            f64_mul_lit(
                f64_div_lit(f64_sub(F(100), sim_entry.liquidity_score), 100),
                2)
        gas_cost == estimate_gas_cost(sim_entry.chain_dest)
        liquidity == f64_mul_lit_whole(sim_entry.liquidity_score, 10000)
    IN  [spread_percentage |-> spread,
         slippage_estimate |-> slippage,
         gas_cost_usd |-> gas_cost,
         available_liquidity |-> liquidity]

\* a variant that returns the quotes in the reverse order
fetch_live_quotes_reversed(fetch_matrix) ==
    [i \in 1..Len(fetch_matrix) |->
        simulate_bridge_quote(fetch_matrix[Len(fetch_matrix) + 1 - i])]

\* token_matrix.iter().map(|entry| simulate_bridge_quote(entry)).collect()
fetch_live_quotes(fetch_matrix) ==
    [i \in 1..Len(fetch_matrix) |-> simulate_bridge_quote(fetch_matrix[i])]

(***************************************************************************)
(* bin/omniarb_engine.rs: the scoring closure                              *)
(***************************************************************************)
\* the fields of TokenEntry and QuoteInfo the scorers read
TokenSample == {"USDC", "LINK", "XYZ"}
BridgeSample == {"STARGATE", "LAYERZERO", "WORMHOLE"}
\* liquidity_score and fee_tier are whatever f64 the matrix row parses to
LiquiditySample == {NaN} \cup {F(n) : n \in {-1000, 0, 95, 100, 1000}}
FeeSample == {NaN} \cup {F100(h) : h \in {10, 15, 30, 50}}
SpreadSample == {F100(h) : h \in {-10000, 20, 50, 100, 150, 200, 1000}}
SlippageEstimateSample == {F100(h) : h \in {-3000, 30, 50, 100, 200, 5000}}
GasSample == {F(n) : n \in {-1000, 5, 100}}

EntrySample ==
    [native_token : TokenSample, bridge_protocol : BridgeSample,
     liquidity_score : LiquiditySample, fee_tier : FeeSample]

QuoteSample ==
    [spread_percentage : SpreadSample,
     slippage_estimate : SlippageEstimateSample, gas_cost_usd : GasSample]

\* load_token_matrix is not running
LoaderIdle ==
    /\ lpc = "off"
    /\ file_lines = <<>>
    /\ lines_read = 0
    /\ in_data_section = FALSE
    /\ entries = <<>>
    /\ warnings = <<>>
    /\ load_result = None

\* omniarb_engine is not running
EngineIdle ==
    /\ epc = "off"
    /\ token_matrix = <<>>
    /\ live_quotes = <<>>
    /\ scored_routes = <<>>
    /\ top_opportunities = <<>>
    /\ presented = <<>>
    /\ stat_count = 0
    /\ stat_mean = 0

\* no pair is being scored
ScoreIdle ==
    /\ entry = None
    /\ quote = None
    /\ spc = "off"
    /\ token_score = 0
    /\ arb_score = 0
    /\ risk_score = 0
    /\ score = 0
    /\ model_pred_tar = 0
    /\ model_pred_flank = 0

\* the closure is entered with one (entry, quote) pair of the zip
InitScore ==
    /\ InitSizer
    /\ EngineIdle
    /\ LoaderIdle
    /\ HttpIdle /\ ManagerIdle
    /\ entry \in EntrySample
    /\ quote \in QuoteSample
    /\ spc = "zipped"
    /\ token_score = 0
    /\ arb_score = 0
    /\ risk_score = 0
    /\ score = 0
    /\ model_pred_tar = 0
    /\ model_pred_flank = 0

\* let score = calculate_tar_score(entry, quote)
CalculateTarScore ==
    /\ spc = "zipped"
    /\ spc' = "scored_tar"
    /\ token_score' = calculate_token_quality(entry.native_token,
                                              entry.liquidity_score)
    /\ arb_score' = calculate_arbitrage_efficiency(entry.fee_tier,
                                                   quote.spread_percentage)
    /\ risk_score' = calculate_risk_score(entry.bridge_protocol,
                                          quote.slippage_estimate)
    /\ score' = calculate_tar_score(entry, quote)
    /\ UNCHANGED <<entry, quote, model_pred_tar, model_pred_flank>>
    /\ UNCHANGED nonScoreVars

\* let model_pred_tar = run_tar_onnx(entry, quote)
RunTarOnnx ==
    /\ spc = "scored_tar"
    /\ spc' = "scored_onnx"
    /\ model_pred_tar' = run_tar_onnx(entry, quote)
    /\ UNCHANGED <<entry, quote, token_score, arb_score, risk_score, score,
                   model_pred_flank>>
    /\ UNCHANGED nonScoreVars

\* let model_pred_flank = run_flanker(entry, quote)
RunFlanker ==
    /\ spc = "scored_onnx"
    /\ spc' = "scored"
    /\ model_pred_flank' = run_flanker(entry, quote)
    /\ UNCHANGED <<entry, quote, token_score, arb_score, risk_score, score,
                   model_pred_tar>>
    /\ UNCHANGED nonScoreVars

(***************************************************************************)
(* bin/omniarb_engine.rs: main                                             *)
(***************************************************************************)
\* matrices: every sequence of up to MaxBase sampled rows, repeated up to
\* MaxRep times (in some of them more than ten rows pass the filter while
\* others are dropped)
MaxBase == 3
MaxRep == 6

\* the fields of TokenEntry the pipeline reads. In pipeline order the rows
\* score 85.0, 84.25, 95.0, 100.0 (liquidity_score NaN), 93.5,
\* 65.0 (fee_tier NaN) and 100.0 (liquidity_score 1000)
EngineEntrySample ==
    {[chain_dest |-> 137, native_token |-> "USDC",
      bridge_protocol |-> "STARGATE", liquidity_score |-> F(100),
      fee_tier |-> F100(30)],
     [chain_dest |-> 1, native_token |-> "USDC",
      bridge_protocol |-> "STARGATE", liquidity_score |-> F(95),
      fee_tier |-> F100(30)],
     [chain_dest |-> 10, native_token |-> "USDC",
      bridge_protocol |-> "STARGATE", liquidity_score |-> F(100),
      fee_tier |-> F100(20)],
     [chain_dest |-> 137, native_token |-> "USDC",
      bridge_protocol |-> "STARGATE", liquidity_score |-> NaN,
      fee_tier |-> F100(30)],
     [chain_dest |-> 1, native_token |-> "ETH",
      bridge_protocol |-> "LIFI", liquidity_score |-> F(90),
      fee_tier |-> F100(10)],
     [chain_dest |-> 42161, native_token |-> "USDC",
      bridge_protocol |-> "STARGATE", liquidity_score |-> F(100),
      fee_tier |-> NaN],
     [chain_dest |-> 56, native_token |-> "LINK",
      bridge_protocol |-> "HOP", liquidity_score |-> F(1000),
      fee_tier |-> F100(10)]}

RepeatRows(rep_base, rep_times) ==
    [i \in 1..(Len(rep_base) * rep_times) |->
        rep_base[((i - 1) % Len(rep_base)) + 1]]

MatrixSample ==
    {RepeatRows(b, r) :
        b \in UNION {[1..n -> EngineEntrySample] : n \in 1..MaxBase},
        r \in 1..MaxRep}

\* a variant whose model prediction decays with the number of calls made
ScoredRoute_call_counting(route_idx, route_entry, route_quote) ==
    [idx |-> route_idx,
     entry |-> route_entry,
     score |-> calculate_tar_score(route_entry, route_quote),
     model_pred_tar |->
         f64_max(f64_sub(run_tar_onnx(route_entry, route_quote),
                         F(route_idx - 1)), 0),
     model_pred_flank |-> run_flanker(route_entry, route_quote)]

\* one element of scored_routes; idx is the element's position in the
\* zip, which tells apart two routes of equal content
ScoredRoute(route_idx, route_entry, route_quote) ==
    [idx |-> route_idx,
     entry |-> route_entry,
     score |-> calculate_tar_score(route_entry, route_quote),
     model_pred_tar |-> run_tar_onnx(route_entry, route_quote),
     model_pred_flank |-> run_flanker(route_entry, route_quote)]

\* mutant: the comparator is not reversed, the sort ascends
by_tar_score_asc(asc_a, asc_b) == total_cmp(asc_a.score, asc_b.score)

\* |a, b| b.1.total_cmp(&a.1)
by_tar_score(cmp_a, cmp_b) == total_cmp(cmp_b.score, cmp_a.score)

\* sort_by is stable: an element goes behind those that do not compare
\* Greater to it
InsertSorted(ins_sorted, ins_x) ==
    LET p == Cardinality({j \in 1..Len(ins_sorted) :
                             by_tar_score(ins_sorted[j], ins_x) <= 0})
    IN  SubSeq(ins_sorted, 1, p) \o <<ins_x>>
            \o SubSeq(ins_sorted, p + 1, Len(ins_sorted))

RECURSIVE SortPrefix(_, _)
SortPrefix(srt_v, srt_n) ==
    IF srt_n = 0 THEN <<>>
    ELSE InsertSorted(SortPrefix(srt_v, srt_n - 1), srt_v[srt_n])

sort_by(unsorted) == SortPrefix(unsorted, Len(unsorted))

\* .iter().map(|(_, s, _, _)| s).sum::<f64>()
RECURSIVE SumScores(_, _)
SumScores(sum_v, sum_n) ==
    IF sum_n = 0 THEN 0
    ELSE f64_add(SumScores(sum_v, sum_n - 1), sum_v[sum_n].score)

\* .iter().take(10)
take(take_v, take_n) ==
    SubSeq(take_v, 1, IF Len(take_v) < take_n THEN Len(take_v) ELSE take_n)

\* load_token_matrix has returned Ok(matrix)
InitEngine ==
    /\ InitSizer
    /\ ScoreIdle
    /\ LoaderIdle
    /\ HttpIdle /\ ManagerIdle
    /\ epc = "loaded"
    /\ token_matrix \in MatrixSample
    /\ live_quotes = <<>>
    /\ scored_routes = <<>>
    /\ top_opportunities = <<>>
    /\ presented = <<>>
    /\ stat_count = 0
    /\ stat_mean = 0

FetchLiveQuotes ==
    /\ epc = "loaded"
    /\ epc' = "quoted"
    /\ live_quotes' = fetch_live_quotes(token_matrix)
    /\ UNCHANGED <<token_matrix, scored_routes, top_opportunities, presented,
                   stat_count, stat_mean>>
    /\ UNCHANGED nonEngineVars

\* token_matrix.iter().zip(live_quotes.iter()).map(...).collect()
ScoreRoutes ==
    /\ epc = "quoted"
    /\ epc' = "scored"
    /\ LET n == IF Len(token_matrix) < Len(live_quotes)
                THEN Len(token_matrix) ELSE Len(live_quotes)
       IN  scored_routes' =
               [i \in 1..n |-> ScoredRoute(i, token_matrix[i], live_quotes[i])]
    /\ UNCHANGED <<token_matrix, live_quotes, top_opportunities, presented,
                   stat_count, stat_mean>>
    /\ UNCHANGED nonEngineVars

\* .filter(|(_, score, _, _)| *score >= 85.0).collect(); scored_routes is
\* moved into the filter
FilterTopOpportunities ==
    /\ epc = "scored"
    /\ epc' = "filtered"
    /\ top_opportunities' =
           SelectSeq(scored_routes, LAMBDA r : f64_ge(r.score, F(85)))
    /\ UNCHANGED <<token_matrix, live_quotes, scored_routes, presented,
                   stat_count, stat_mean>>
    /\ UNCHANGED nonEngineVars

SortTopOpportunities ==
    /\ epc = "filtered"
    /\ epc' = "sorted"
    /\ top_opportunities' = sort_by(top_opportunities)
    /\ UNCHANGED <<token_matrix, live_quotes, scored_routes, presented,
                   stat_count, stat_mean>>
    /\ UNCHANGED nonEngineVars

\* mutant: the statistics are taken over the ten routes shown
PrintReport_shown_only ==
    /\ epc = "sorted"
    /\ epc' = "done"
    /\ presented' = take(top_opportunities, 10)
    /\ stat_count' = Len(take(top_opportunities, 10))
    /\ stat_mean' =
           IF top_opportunities # <<>>
           THEN f64_div_lit(
                    SumScores(take(top_opportunities, 10),
                              Len(take(top_opportunities, 10))),
                    Len(take(top_opportunities, 10)))
           ELSE 0
    /\ UNCHANGED <<token_matrix, live_quotes, scored_routes,
                   top_opportunities>>
    /\ UNCHANGED nonEngineVars

\* the table of the first ten routes and the summary statistics
PrintReport ==
    /\ epc = "sorted"
    /\ epc' = "done"
    /\ presented' = take(top_opportunities, 10)
    /\ stat_count' = Len(top_opportunities)
    /\ stat_mean' =
           IF top_opportunities # <<>>
           THEN f64_div_lit(
                    SumScores(top_opportunities, Len(top_opportunities)),
                    Len(top_opportunities))
           ELSE 0
    /\ UNCHANGED <<token_matrix, live_quotes, scored_routes,
                   top_opportunities>>
    /\ UNCHANGED nonEngineVars

\* the sort on its own: any short list of scored routes, NaN scores of
\* either sign among them
MaxSort == 3
SortScoreSample == {NegNaN, F(85), F(90), F(100), NaN}

SortInputSample ==
    UNION {{[i \in 1..n |->
                [idx |-> i, entry |-> None, score |-> sc[i],
                 model_pred_tar |-> 0, model_pred_flank |-> 0]] :
               sc \in [1..n -> SortScoreSample]} : n \in 0..MaxSort}

InitSort ==
    /\ InitSizer
    /\ ScoreIdle
    /\ LoaderIdle
    /\ HttpIdle /\ ManagerIdle
    /\ epc = "filtered"
    /\ token_matrix = <<>>
    /\ live_quotes = <<>>
    /\ scored_routes = <<>>
    /\ top_opportunities \in SortInputSample
    /\ presented = <<>>
    /\ stat_count = 0
    /\ stat_mean = 0

(***************************************************************************)
(* load_token_matrix as a state machine: the file is opened, its lines are *)
(* read one at a time, and the result is returned.                         *)
(***************************************************************************)
MaxLines == 3

BlankLine == <<" ">>
MarkerLine == <<"## Data Entries">>
CommentLine == <<"# note">>
HeaderLine == <<"chain_origin", "chain_dest", "native_token", "dex_origin",
                "dex_dest", "bridge_protocol", "liquidity_score", "fee_tier">>
Row(row_origin, row_dest, row_liq, row_fee) ==
    <<row_origin, row_dest, "USDC", "UNISWAP", "QUICKSWAP", "STARGATE",
      row_liq, row_fee>>

LineSample ==
    { BlankLine, MarkerLine, CommentLine, HeaderLine,
      Row("1", "137", "95", "0.3"),
      Row(" 10", "56", "NaN", "0.1 "),
      Row("abc", "137", "95", "0.3"),
      Row("1", " 137", "95", "0.3"),
      Row("1", "137", "abc", "0.3"),
      Row("1", "137", "-5", ""),
      Row("", "abc", "", "abc"),
      <<"1", "137", "USDC", "UNISWAP", "QUICKSWAP", "95", "0.3">>,
      <<"1", "137", "USDC", "UNISWAP", "QUICKSWAP", "STARGATE", "95", "0.3", "">>,
      <<"1", "137", "## Data Entries", "UNISWAP", "QUICKSWAP", "STARGATE",
        "95", "0.3">> }

FileSample ==
    UNION { [1..file_len -> LineSample] : file_len \in 0..MaxLines }

LoadOk(ok_entries) == [kind |-> "ok", entries |-> ok_entries]
LoadErr(err_msg) == [kind |-> "err", msg |-> err_msg]

InitLoader ==
    /\ InitSizer /\ ScoreIdle /\ EngineIdle /\ HttpIdle /\ ManagerIdle
    /\ lpc = "start"
    /\ file_lines \in FileSample
    /\ lines_read = 0
    /\ in_data_section = FALSE
    /\ entries = <<>>
    /\ warnings = <<>>
    /\ load_result = None

\* File::open(path) succeeds
OpenFile ==
    /\ lpc = "start"
    /\ lpc' = "reading"
    /\ UNCHANGED <<file_lines, lines_read, in_data_section, entries,
                   warnings, load_result>>
    /\ UNCHANGED nonLoaderVars

\* File::open(path) fails: map_err(..)? returns at once
OpenFileFails ==
    /\ lpc = "start"
    /\ lpc' = "done"
    /\ load_result' = LoadErr("Failed to open matrix file")
    /\ UNCHANGED <<file_lines, lines_read, in_data_section, entries, warnings>>
    /\ UNCHANGED nonLoaderVars

\* one iteration of the loop whose line was read
ProcessLine ==
    /\ lpc = "reading"
    /\ lines_read < Len(file_lines)
    /\ LET after == loop_body(file_lines[lines_read + 1], in_data_section,
                              entries, warnings)
       IN  /\ in_data_section' = after.section
           /\ entries' = after.entries
           /\ warnings' = after.warnings
    /\ lines_read' = lines_read + 1
    /\ UNCHANGED <<lpc, file_lines, load_result>>
    /\ UNCHANGED nonLoaderVars

\* one iteration of the loop whose line could not be read: line.map_err(..)?
\* returns, and the entries gathered so far are dropped with the call
ReadLineFails ==
    /\ lpc = "reading"
    /\ lines_read < Len(file_lines)
    /\ lpc' = "done"
    /\ load_result' = LoadErr("Failed to read line")
    /\ UNCHANGED <<file_lines, lines_read, in_data_section, entries, warnings>>
    /\ UNCHANGED nonLoaderVars

\* the loop is over: the emptiness test and the return
FinishLoad ==
    /\ lpc = "reading"
    /\ lines_read = Len(file_lines)
    /\ lpc' = "done"
    /\ load_result' = IF entries = <<>>
                      THEN LoadErr("No valid entries found in matrix file")
                      ELSE LoadOk(entries)
    /\ UNCHANGED <<file_lines, lines_read, in_data_section, entries, warnings>>
    /\ UNCHANGED nonLoaderVars

(***************************************************************************)
(* http_server.rs: the TVL-query and loan-sizing handlers                  *)
(***************************************************************************)
\* Strings that are parsed or printed digit by digit are sequences of
\* one-character strings.
HexDigits == <<"0", "1", "2", "3", "4", "5", "6", "7", "8", "9",
               "a", "b", "c", "d", "e", "f">>
DecDigits == SubSeq(HexDigits, 1, 10)

is_hex_digit(hd_ch) == \E i \in 1..16 : HexDigits[i] = hd_ch
hex_value(hv_ch) == (CHOOSE i \in 1..16 : HexDigits[i] = hv_ch) - 1

RECURSIVE hex_fold(_, _)
\* the number the first hf_n hexadecimal digits of hf_str denote
hex_fold(hf_str, hf_n) ==
    IF hf_n = 0 THEN <<>>
    ELSE BigAdd(BigMul(hex_fold(hf_str, hf_n - 1), BigFromInt(16)),
                BigFromInt(hex_value(hf_str[hf_n])))

\* str::parse::<U256>(): the FromStr of U256 reads hexadecimal digits, with
\* or without a leading 0x, at most 64 of them
parse_U256(pa_str) ==
    LET digits == IF Len(pa_str) >= 2 /\ pa_str[1] = "0" /\ pa_str[2] = "x"
                  THEN SubSeq(pa_str, 3, Len(pa_str)) ELSE pa_str
    IN  IF Len(digits) > 64 THEN [ok |-> FALSE]
        ELSE IF \E i \in 1..Len(digits) : ~is_hex_digit(digits[i])
        THEN [ok |-> FALSE]
        ELSE [ok |-> TRUE, value |-> hex_fold(digits, Len(digits))]

\* the decimal digits of one limb, all three or without leading zeros
limb_digits(ld_limb, ld_pad) ==
    LET hundreds == ld_limb \div 100
        tens == (ld_limb \div 10) % 10
        units == ld_limb % 10
    IN  IF ld_pad \/ hundreds > 0
        THEN <<DecDigits[hundreds + 1], DecDigits[tens + 1], DecDigits[units + 1]>>
        ELSE IF tens > 0 THEN <<DecDigits[tens + 1], DecDigits[units + 1]>>
        ELSE <<DecDigits[units + 1]>>

RECURSIVE padded_digits(_, _)
\* limbs ps_n .. 1 of ps_big, three digits each
padded_digits(ps_big, ps_n) ==
    IF ps_n = 0 THEN <<>>
    ELSE limb_digits(ps_big[ps_n], TRUE) \o padded_digits(ps_big, ps_n - 1)

\* U256::to_string(): the Display of U256 prints decimal digits
U256_to_string(st_big) ==
    IF st_big = <<>> THEN <<"0">>
    ELSE limb_digits(st_big[Len(st_big)], FALSE)
            \o padded_digits(st_big, Len(st_big) - 1)

\* addresses are whole strings; str::parse::<Address>() takes 40 hexadecimal
\* digits with or without a leading 0x
BALANCER_V3_VAULT == "0xbA1333333333a1BA1108E8412f11850A5C319bA9"
UsdcAddress == "0xA0b86991c6218b36c1d19D4a2e9Eb0cE3606eB48"
UsdcAddressBare == "A0b86991c6218b36c1d19D4a2e9Eb0cE3606eB48"
AaveV3Pool == "0x87870Bca3F3fD6335C3F4ce8392D69350B4fA4E2"

parse_address(ad_str) ==
    CASE ad_str = BALANCER_V3_VAULT -> [ok |-> TRUE, value |-> "balancer_v3_vault"]
      [] ad_str = UsdcAddress -> [ok |-> TRUE, value |-> "usdc"]
      [] ad_str = UsdcAddressBare -> [ok |-> TRUE, value |-> "usdc"]
      [] ad_str = AaveV3Pool -> [ok |-> TRUE, value |-> "aave_v3_pool"]
      [] OTHER -> [ok |-> FALSE]

\* Option<String>
NoString == [some |-> FALSE]
SomeString(some_text) == [some |-> TRUE, text |-> some_text]

\* Config::chains as loaded from the environment: chain 1 with its RPC URL
\* set, chain 137 with RPC_POLYGON unset (unwrap_or_default gives "")
ConfigSample == [chains |-> (1 :> "https://eth.example/rpc" @@ 137 :> "")]

\* Config::get_chain
get_chain(gc_config, gc_chain_id) ==
    IF gc_chain_id \in DOMAIN gc_config.chains
    THEN SomeString(gc_config.chains[gc_chain_id])
    ELSE NoString

\* Provider::<Http>::try_from(&chain_config.rpc): the URL must parse
provider_try_from(pt_rpc) ==
    IF pt_rpc = "" THEN [ok |-> FALSE]
    ELSE [ok |-> TRUE, value |-> pt_rpc]

BAD_REQUEST == 400
INTERNAL_SERVER_ERROR == 500
OK == 200

TvlQueryResponse(tq_status, tq_tvl, tq_lender, tq_success, tq_error) ==
    [status |-> tq_status, tvl |-> tq_tvl, lender_address |-> tq_lender,
     success |-> tq_success, error |-> tq_error]

LoanOptimizeResponse(lo_status, lo_amount, lo_success, lo_error) ==
    [status |-> lo_status, optimized_amount |-> lo_amount,
     success |-> lo_success, error |-> lo_error]

Proceed(go_value) == [done |-> FALSE, value |-> go_value]
Respond(rs_response) == [done |-> TRUE, response |-> rs_response]

\* query_tvl up to its await: either the response of an early return, or
\* the arguments of get_provider_tvl
query_tvl_checks(qt_config, qt_request) ==
    LET chain_config == get_chain(qt_config, qt_request.chain_id)
        lender_address == IF qt_request.lender_address.some
                          THEN qt_request.lender_address.text
                          ELSE BALANCER_V3_VAULT
        token_addr == parse_address(qt_request.token_address)
        lender_addr == parse_address(lender_address)
    IN  IF ~chain_config.some
        THEN Respond(TvlQueryResponse(BAD_REQUEST, <<"0">>, "", FALSE,
                         SomeString("Chain not supported")))
        ELSE IF ~token_addr.ok
        THEN Respond(TvlQueryResponse(BAD_REQUEST, <<"0">>, lender_address,
                         FALSE, SomeString("Invalid token address")))
        ELSE IF ~lender_addr.ok
        THEN Respond(TvlQueryResponse(BAD_REQUEST, <<"0">>, lender_address,
                         FALSE, SomeString("Invalid lender address")))
        ELSE IF ~provider_try_from(chain_config.text).ok
        THEN Respond(TvlQueryResponse(INTERNAL_SERVER_ERROR, <<"0">>,
                         lender_address, FALSE,
                         SomeString("Failed to create provider")))
        ELSE Proceed([token |-> token_addr.value, lender |-> lender_addr.value,
                      lender_address |-> lender_address])

\* query_tvl from its await: the match on what get_provider_tvl returned
query_tvl_answer(qa_tvl, qa_lender_address) ==
    IF qa_tvl.ok
    THEN TvlQueryResponse(OK, U256_to_string(qa_tvl.v), qa_lender_address,
                          TRUE, NoString)
    ELSE TvlQueryResponse(INTERNAL_SERVER_ERROR, <<"0">>, qa_lender_address,
                          FALSE, SomeString("TVL query failed"))

\* optimize_loan up to the call of optimize_loan_size
optimize_loan_checks(ol_config, ol_request) ==
    LET chain_config == get_chain(ol_config, ol_request.chain_id)
        token_addr == parse_address(ol_request.token_address)
        target_amount == parse_U256(ol_request.target_amount)
    IN  IF ~chain_config.some
        THEN Respond(LoanOptimizeResponse(BAD_REQUEST, <<"0">>, FALSE,
                         SomeString("Chain not supported")))
        ELSE IF ~token_addr.ok
        THEN Respond(LoanOptimizeResponse(BAD_REQUEST, <<"0">>, FALSE,
                         SomeString("Invalid token address")))
        ELSE IF ~target_amount.ok
        THEN Respond(LoanOptimizeResponse(BAD_REQUEST, <<"0">>, FALSE,
                         SomeString("Invalid target amount")))
        ELSE IF ~provider_try_from(chain_config.text).ok
        THEN Respond(LoanOptimizeResponse(INTERNAL_SERVER_ERROR, <<"0">>,
                         FALSE, SomeString("Failed to create provider")))
        ELSE Proceed([token |-> token_addr.value,
                      target_amount |-> target_amount.value])

\* a variant that reports an amount of zero as a failed optimization
optimize_loan_answer_zero_fails(oa_optimized) ==
    IF oa_optimized = <<>>
    THEN LoanOptimizeResponse(INTERNAL_SERVER_ERROR, <<"0">>, FALSE,
                              SomeString("Loan optimization failed"))
    ELSE LoanOptimizeResponse(OK, U256_to_string(oa_optimized), TRUE, NoString)

\* optimize_loan after optimize_loan_size returned Ok(optimized)
optimize_loan_answer(oa_optimized) ==
    LoanOptimizeResponse(OK, U256_to_string(oa_optimized), TRUE, NoString)

\* the requests: supported and unsupported chain ids, well-formed and
\* malformed addresses, amounts and decimals
ChainIdSample == {1, 137, 999}
TokenAddressSample == {UsdcAddress, UsdcAddressBare, "0x1234", "USDC"}
LenderAddressSample ==
    {NoString, SomeString(AaveV3Pool), SomeString("0xZZ"), SomeString("")}
\* 0, 1000, 500000 and 0x3e8 in digits; 1f4 and ff are not decimal; 12.5,
\* -5 and 1e3 are not unsigned integers in any base
TargetAmountSample ==
    { <<"0">>, <<"1", "0", "0", "0">>, <<"5", "0", "0", "0", "0", "0">>,
      <<"0", "x", "3", "e", "8">>, <<"1", "f", "4">>, <<"f", "f">>,
      <<"1", "2", ".", "5">>, <<"-", "5">>, <<"1", "e", "3">>, <<"z", "z">> }
RequestDecimalsSample == {0, 18, 75}

TvlQueryRequestSample ==
    [endpoint : {"tvl"}, chain_id : ChainIdSample,
     token_address : TokenAddressSample, lender_address : LenderAddressSample]

LoanOptimizeRequestSample ==
    [endpoint : {"optimize_loan"}, chain_id : ChainIdSample,
     token_address : TokenAddressSample, target_amount : TargetAmountSample,
     decimals : RequestDecimalsSample]

\* the server is up: AppState holds the configuration, no request yet
InitHttp ==
    /\ InitSizer /\ ScoreIdle /\ EngineIdle /\ LoaderIdle /\ ManagerIdle
    /\ hpc = "idle"
    /\ request = None
    /\ response = None
    /\ liquidity_reads = 0
    /\ read_outcome = None
    /\ app_config = ConfigSample

HandlerFree == hpc \in {"idle", "responded", "aborted"}

\* GET /api/tvl: query_tvl up to its await or its early return
QueryTvl(qt_req) ==
    /\ HandlerFree
    /\ request' = qt_req
    /\ liquidity_reads' = 0
    /\ read_outcome' = None
    /\ LET checks == query_tvl_checks(app_config, qt_req)
       IN  IF checks.done
           THEN /\ response' = checks.response
                /\ hpc' = "responded"
           ELSE /\ response' = None
                /\ hpc' = "tvl_await"
    /\ UNCHANGED <<app_config, sizerVars, nonHttpSizerVars>>

\* get_provider_tvl runs for query_tvl, and query_tvl answers
QueryTvlRead(qr_call) ==
    /\ hpc = "tvl_await"
    /\ liquidity_reads' = liquidity_reads + 1
    /\ read_outcome' = qr_call
    /\ response' =
          query_tvl_answer(get_provider_tvl(qr_call),
                           query_tvl_checks(app_config, request).value.lender_address)
    /\ hpc' = "responded"
    /\ UNCHANGED <<request, app_config, sizerVars, nonHttpSizerVars>>

\* a variant of optimize_loan that sizes with a commander kept from before
\* the request, with whatever guardrails it was left with
OptimizeLoan_keeps_commander(kc_req) ==
    /\ HandlerFree
    /\ pc = "idle"
    /\ request' = kc_req
    /\ liquidity_reads' = 0
    /\ read_outcome' = None
    /\ LET checks == optimize_loan_checks(app_config, kc_req)
       IN  IF checks.done
           THEN /\ response' = checks.response
                /\ hpc' = "responded"
                /\ UNCHANGED sizerVars
           ELSE /\ response' = None
                /\ hpc' = "loan_await"
                /\ pc' = "await_tvl"
                /\ target_amount_raw' = checks.value.target_amount
                /\ decimals' = kc_req.decimals
                /\ balance_call' = None
                /\ tvl' = None
                /\ reads' = 0
                /\ max_cap' = None
                /\ result' = None
                /\ UNCHANGED <<min_loan_usd, max_tvl_share, slippage_tolerance>>
    /\ UNCHANGED <<app_config, nonHttpSizerVars>>

\* POST /api/optimize_loan: optimize_loan up to the await inside
\* optimize_loan_size, with the commander TitanCommander::new builds, or up
\* to its early return
OptimizeLoan(ol_req) ==
    /\ HandlerFree
    /\ pc = "idle"
    /\ request' = ol_req
    /\ liquidity_reads' = 0
    /\ read_outcome' = None
    /\ LET checks == optimize_loan_checks(app_config, ol_req)
       IN  IF checks.done
           THEN /\ response' = checks.response
                /\ hpc' = "responded"
                /\ UNCHANGED sizerVars
           ELSE /\ response' = None
                /\ hpc' = "loan_await"
                /\ min_loan_usd' = 10000
                /\ max_tvl_share' = 2000000
                /\ slippage_tolerance' = 9950
                /\ pc' = "await_tvl"
                /\ target_amount_raw' = checks.value.target_amount
                /\ decimals' = ol_req.decimals
                /\ balance_call' = None
                /\ tvl' = None
                /\ reads' = 0
                /\ max_cap' = None
                /\ result' = None
    /\ UNCHANGED <<app_config, nonHttpSizerVars>>

\* optimize_loan_size returned: optimize_loan answers and the commander is
\* dropped
OptimizeLoanRespond ==
    /\ hpc = "loan_await"
    /\ pc = "returned"
    /\ response' = optimize_loan_answer(result.amount)
    /\ liquidity_reads' = reads
    /\ read_outcome' = balance_call
    /\ hpc' = "responded"
    /\ pc' = "idle"
    /\ target_amount_raw' = <<>>
    /\ decimals' = 0
    /\ balance_call' = None
    /\ tvl' = None
    /\ reads' = 0
    /\ max_cap' = None
    /\ result' = None
    /\ UNCHANGED <<min_loan_usd, max_tvl_share, slippage_tolerance>>
    /\ UNCHANGED <<request, app_config, nonHttpSizerVars>>

\* optimize_loan_size panicked: the task of the request unwinds and no
\* response is written
OptimizeLoanAborts ==
    /\ hpc = "loan_await"
    /\ pc = "panicked"
    /\ response' = None
    /\ liquidity_reads' = reads
    /\ read_outcome' = balance_call
    /\ hpc' = "aborted"
    /\ pc' = "idle"
    /\ target_amount_raw' = <<>>
    /\ decimals' = 0
    /\ balance_call' = None
    /\ tvl' = None
    /\ reads' = 0
    /\ max_cap' = None
    /\ result' = None
    /\ UNCHANGED <<min_loan_usd, max_tvl_share, slippage_tolerance>>
    /\ UNCHANGED <<request, app_config, nonHttpSizerVars>>

(***************************************************************************)
(* enum_matrix.rs: ProviderManager::get_provider called by concurrent      *)
(* tasks. get_provider takes &mut self and the manager is shared as        *)
(* Arc<RwLock<ProviderManager>>, so a caller holds the write guard from    *)
(* before the lookup until after the insert.                               *)
(***************************************************************************)
ManagerChainSample == {1, 137}
RpcUrlSample == {"https://rpc-a.example", "https://rpc-b.example", ""}

GotProvider(gp_id) == [ok |-> TRUE, id |-> gp_id]
GotErr == [ok |-> FALSE]

\* a task starts provider_manager.write().await to call get_provider
CallGetProvider(cg_task, cg_chain_id, cg_rpc_url) ==
    /\ task[cg_task].pc \in {"idle", "done"}
    /\ task' = [task EXCEPT ![cg_task] =
                   [pc |-> "wait_lock", chain_id |-> cg_chain_id,
                    rpc_url |-> cg_rpc_url, got |-> None]]
    /\ UNCHANGED <<lock_holders, providers, created>>
    /\ UNCHANGED nonManagerVars

\* a variant of the lock that admits a task while another holds it
AcquireWrite_shared(aw_task) ==
    /\ task[aw_task].pc = "wait_lock"
    /\ lock_holders' = lock_holders \cup {aw_task}
    /\ task' = [task EXCEPT ![aw_task].pc = "lookup"]
    /\ UNCHANGED <<providers, created>>
    /\ UNCHANGED nonManagerVars

\* the write guard is granted: nobody else holds the lock
AcquireWrite(aw_task) ==
    /\ task[aw_task].pc = "wait_lock"
    /\ lock_holders = {}
    /\ lock_holders' = {aw_task}
    /\ task' = [task EXCEPT ![aw_task].pc = "lookup"]
    /\ UNCHANGED <<providers, created>>
    /\ UNCHANGED nonManagerVars

\* if let Some(provider) = self.providers.get(&chain_id) { return Ok(..) }
GetProviderLookup(gl_task) ==
    /\ task[gl_task].pc = "lookup"
    /\ task' = IF task[gl_task].chain_id \in DOMAIN providers
               THEN [task EXCEPT ![gl_task].pc = "release",
                                 ![gl_task].got =
                                     GotProvider(providers[task[gl_task].chain_id])]
               ELSE [task EXCEPT ![gl_task].pc = "create"]
    /\ UNCHANGED <<lock_holders, providers, created>>
    /\ UNCHANGED nonManagerVars

\* Provider::<Http>::try_from(rpc_url)?, Arc::new, self.providers.insert
GetProviderCreate(gc_task) ==
    /\ task[gc_task].pc = "create"
    /\ IF provider_try_from(task[gc_task].rpc_url).ok
       THEN /\ created' = Append(created,
                              [chain_id |-> task[gc_task].chain_id,
                               rpc_url |-> task[gc_task].rpc_url])
            /\ providers' = [c \in DOMAIN providers \cup {task[gc_task].chain_id} |->
                                IF c = task[gc_task].chain_id
                                THEN Len(created) + 1 ELSE providers[c]]
            /\ task' = [task EXCEPT ![gc_task].pc = "release",
                                    ![gc_task].got = GotProvider(Len(created) + 1)]
       ELSE /\ task' = [task EXCEPT ![gc_task].pc = "release",
                                    ![gc_task].got = GotErr]
            /\ UNCHANGED <<providers, created>>
    /\ UNCHANGED lock_holders
    /\ UNCHANGED nonManagerVars

\* get_provider has returned and the write guard is dropped
ReleaseWrite(rw_task) ==
    /\ task[rw_task].pc = "release"
    /\ lock_holders' = lock_holders \ {rw_task}
    /\ task' = [task EXCEPT ![rw_task].pc = "done"]
    /\ UNCHANGED <<providers, created>>
    /\ UNCHANGED nonManagerVars

InitManager ==
    /\ InitSizer /\ ScoreIdle /\ EngineIdle /\ LoaderIdle /\ HttpIdle
    /\ ManagerIdle

(***************************************************************************)
(* Specifications                                                          *)
(***************************************************************************)
vars == <<sizerVars, scoreVars, engineVars, loaderVars, httpVars, managerVars>>

Init == InitSizer /\ ScoreIdle /\ EngineIdle /\ LoaderIdle /\ HttpIdle /\ ManagerIdle

Next ==
    \/ \E m \in MinLoanSample : set_min_loan_usd(m)
    \/ \E s \in ShareSample : set_max_tvl_share(s)
    \/ \E t \in SlippageSample : set_slippage_tolerance(t)
    \/ \E a \in AmountSample, d \in DecimalsSample : OptimizeLoanSizeCall(a, d)
    \/ \E c \in BalanceCallOutcomes : GetProviderTvl(c)
    \/ OptimizeLoanSizeResume
    \/ OptimizeLoanSizeDone

\* the loan sizer
Spec == Init /\ [][Next]_vars

NextScore ==
    \/ CalculateTarScore
    \/ RunTarOnnx
    \/ RunFlanker

\* the scorers on one (entry, quote) pair
SpecScore == InitScore /\ [][NextScore]_vars

NextEngine ==
    \/ FetchLiveQuotes
    \/ ScoreRoutes
    \/ FilterTopOpportunities
    \/ SortTopOpportunities
    \/ PrintReport

\* omniarb_engine from the loaded matrix to the printed report
SpecEngine == InitEngine /\ [][NextEngine]_vars

NextSort == SortTopOpportunities

\* sort_by with the comparator of omniarb_engine on any list of scores
SpecSort == InitSort /\ [][NextSort]_vars

NextLoader ==
    \/ OpenFile
    \/ OpenFileFails
    \/ ProcessLine
    \/ ReadLineFails
    \/ FinishLoad

SpecLoader == InitLoader /\ [][NextLoader]_vars

NextHttp ==
    \/ \E qt_req \in TvlQueryRequestSample : QueryTvl(qt_req)
    \/ \E call \in BalanceCallOutcomes : QueryTvlRead(call)
    \/ \E ol_req \in LoanOptimizeRequestSample : OptimizeLoan(ol_req)
    \/ \E call \in BalanceCallOutcomes : GetProviderTvl(call)
    \/ OptimizeLoanSizeResume
    \/ OptimizeLoanRespond
    \/ OptimizeLoanAborts

SpecHttp == InitHttp /\ [][NextHttp]_vars

NextManager ==
    \/ \E t \in Tasks, c \in ManagerChainSample, u \in RpcUrlSample :
          CallGetProvider(t, c, u)
    \/ \E t \in Tasks : AcquireWrite(t)
    \/ \E t \in Tasks : GetProviderLookup(t)
    \/ \E t \in Tasks : GetProviderCreate(t)
    \/ \E t \in Tasks : ReleaseWrite(t)

SpecManager == InitManager /\ [][NextManager]_vars

(***************************************************************************)
(* Mathematical (unbounded) values the claims are stated with              *)
(***************************************************************************)
\* 10^d as limbs, without any 256-bit limit
Pow10Big(d) ==
    [i \in 1..(d \div 3 + 1) |->
        IF i <= d \div 3 THEN 0
        ELSE IF d % 3 = 0 THEN 1 ELSE IF d % 3 = 1 THEN 10 ELSE 100]

\* floor = 500 * 10^decimals
FloorMath(d) == BigMul(BigFromInt(500), Pow10Big(d))

\* cap = pool_liquidity * max_tvl_share, the share taken in millionths
CapMath(share, pool) ==
    BigDivSmall(BigMul(pool, BigFromInt(F64ToMillionths(share))), 1000000)

\* the balance_of call failed, or the balance it read is zero
ReadFailedOrZero == ~balance_call.ok \/ balance_call.balance = <<>>

(***************************************************************************)
(* C1                                                                      *)
(***************************************************************************)
\* C1 as stated: on every path (live liquidity, read failure, zero
\* liquidity) the returned amount is 0 or lies in [floor, cap], with
\* cap = pool_liquidity * max_tvl_share for the liquidity the read produced
C1_AmountZeroOrWithinFloorAndCap ==
    pc = "returned" =>
        \/ result.amount = <<>>
        \/ /\ BigLe(FloorMath(decimals), result.amount)
           /\ BigLe(result.amount, CapMath(max_tvl_share, tvl.v))

\* C1 amended: the returned amount is 0, or lies in [floor, cap] when the
\* read produced a nonzero liquidity, or is the requested amount itself, at
\* least the floor, when the read failed or produced zero (no cap applies)
C1_AmountZeroOrBoundedPerPath ==
    pc = "returned" =>
        \/ result.amount = <<>>
        \/ /\ ~ReadFailedOrZero
           /\ BigLe(FloorMath(decimals), result.amount)
           /\ BigLe(result.amount, CapMath(max_tvl_share, tvl.v))
        \/ /\ ReadFailedOrZero
           /\ result.amount = target_amount_raw
           /\ BigLe(FloorMath(decimals), result.amount)

\* a live call scaled down to a cap that is at least the floor
C1_Witness ==
    /\ pc = "returned"
    /\ ~ReadFailedOrZero
    /\ result.amount # <<>>
    /\ result.amount = CapMath(max_tvl_share, tvl.v)
    /\ BigLt(result.amount, target_amount_raw)

(***************************************************************************)
(* C2                                                                      *)
(***************************************************************************)
\* C2: when the liquidity read fails or returns zero, the call skips the
\* cap and returns Ok with exactly 0 if the requested amount is below
\* 500 * 10^decimals and with the requested amount unchanged otherwise; it
\* never returns an error for this reason (a call that ends otherwise on
\* this path ends in the overflow of the floor itself)
C2_PaperModeFloorOnly ==
    /\ (pc = "returned" /\ ReadFailedOrZero) =>
           /\ result.outcome = "Ok"
           /\ max_cap = None
           /\ result.amount =
                  IF BigLt(target_amount_raw, FloorMath(decimals)) THEN <<>>
                  ELSE target_amount_raw
    /\ (pc = "panicked" /\ ReadFailedOrZero) =>
           /\ max_cap = None
           /\ BigLt(U256_MAX, FloorMath(decimals))

\* a failed read, and a request at or above the floor returned as it is
C2_Witness ==
    /\ pc = "returned"
    /\ ~balance_call.ok
    /\ target_amount_raw # <<>>
    /\ result.amount = target_amount_raw

(***************************************************************************)
(* C3                                                                      *)
(***************************************************************************)
\* C3: after a nonzero liquidity read the cap check precedes the floor
\* check: the result is 0 if min(requested, cap) < floor and
\* min(requested, cap) otherwise
C3_CapBeforeFloor ==
    (pc = "returned" /\ ~ReadFailedOrZero) =>
        LET m == BigMin(target_amount_raw, CapMath(max_tvl_share, tvl.v))
        IN  /\ result.outcome = "Ok"
            /\ result.amount =
                   IF BigLt(m, FloorMath(decimals)) THEN <<>> ELSE m

\* a request at or above the floor, scaled down to a cap below the floor,
\* is rejected with 0
C3_Witness ==
    /\ pc = "returned"
    /\ ~ReadFailedOrZero
    /\ BigLe(FloorMath(decimals), target_amount_raw)
    /\ BigLt(CapMath(max_tvl_share, tvl.v), FloorMath(decimals))
    /\ CapMath(max_tvl_share, tvl.v) # <<>>
    /\ result.amount = <<>>

(***************************************************************************)
(* C4                                                                      *)
(***************************************************************************)
\* C4: the cap calculate_max_cap returns is floor(pool * q / 1000000) for
\* q the share in millionths, that is cap * 10^6 <= pool * q <
\* (cap + 1) * 10^6; it is 200000 for a pool of 1000000 and a share of
\* 0.20; and it does not exceed the pool for q in 1..1000000
C4_CapIsExactFloorDivision ==
    (pc \in {"returned", "panicked"} /\ max_cap # None /\ ~max_cap.panic) =>
        LET q == BigFromInt(F64ToMillionths(max_tvl_share))
            million == BigFromInt(1000000)
            product == BigMul(tvl.v, q)
        IN  /\ BigLe(BigMul(max_cap.v, million), product)
            /\ BigLt(product, BigMul(BigAdd(max_cap.v, <<1>>), million))
            /\ (tvl.v = BigFromInt(1000000) /\ max_tvl_share = 2000000)
                   => max_cap.v = BigFromInt(200000)
            /\ (F64ToMillionths(max_tvl_share) \in 1..1000000)
                   => BigLe(max_cap.v, tvl.v)

\* the pool and share of test_max_cap_calculation
C4_Witness ==
    /\ pc = "returned"
    /\ tvl.v = BigFromInt(1000000)
    /\ max_tvl_share = 2000000
    /\ max_cap = U256Ok(BigFromInt(200000))

(***************************************************************************)
(* C5                                                                      *)
(***************************************************************************)
\* C5 as stated: for every decimals in 0..255 and every 256-bit amount and
\* liquidity the call completes with a decision; no product overflows
C5_SizingNeverPanics ==
    pc # "panicked"

(***************************************************************************)
(* C6                                                                      *)
(***************************************************************************)
\* C6 as stated: whatever set_max_tvl_share calls came before, a sizing
\* call uses a max_tvl_share in (0, 1], so that the cap it applies does not
\* exceed the pool liquidity that was read
C6_ShareValidatedBeforeUse ==
    /\ pc \in {"await_tvl", "resumed", "returned", "panicked"}
           => (0 < max_tvl_share /\ max_tvl_share <= ShareScale)
    /\ (pc = "returned" /\ max_cap # None)
           => BigLe(max_cap.v, tvl.v)

(***************************************************************************)
(* Scoring claims                                                          *)
(***************************************************************************)
\* calculate_tar_score has returned for the pair
TarScored == spc \in {"scored_tar", "scored_onnx", "scored"}

\* no numeric field of the record is NaN (the sampled quotes are all finite)
FiniteFields == entry.liquidity_score # NaN /\ entry.fee_tier # NaN

\* the ladders as counts of the thresholds passed, 5 points each
FeePointsRef(fee) ==
    F(5 * Cardinality({t \in {15, 30, 50} : fee # NaN /\ fee < F100(t)}))

SpreadPointsRef(spread) ==
    F(5 * Cardinality({t \in {20, 50, 100, 200} : spread > F100(t)}))

SlippagePointsRef(slip) ==
    F(5 * Cardinality({t \in {50, 100, 200} : slip < F100(t)}))

TokenTierRef(tok) ==
    IF tok \in TIER_1_TOKENS THEN F(20)
    ELSE IF tok \in TIER_2_TOKENS THEN F(12) ELSE F(5)

BridgeTierRef(br) ==
    IF br \in TIER_1_BRIDGES THEN F(15)
    ELSE IF br \in TIER_2_BRIDGES THEN F(10) ELSE F(5)

\* T + A + R of the pair being scored, for a liquidity_score that is a number
TarSumRef ==
    TokenTierRef(entry.native_token)
        + (entry.liquidity_score * 15) \div 100
        + FeePointsRef(entry.fee_tier)
        + SpreadPointsRef(quote.spread_percentage)
        + BridgeTierRef(entry.bridge_protocol)
        + SlippagePointsRef(quote.slippage_estimate)

(***************************************************************************)
(* C7                                                                      *)
(***************************************************************************)
\* C7 as stated: for every record and quote with finite numeric fields,
\* liquidity_score below 0 or above 100 included, calculate_tar_score
\* returns a value in [0, 100]
C7_TarScoreWithin0And100 ==
    (TarScored /\ FiniteFields) => (0 <= score /\ score <= F(100))

(***************************************************************************)
(* C8                                                                      *)
(***************************************************************************)
\* C8: for every record and quote with finite numeric fields, run_tar_onnx
\* and run_flanker each return a value in [0, 100], whatever the sign or
\* size of liquidity_score, spread, slippage and gas cost
C8_PredictionsWithin0And100 ==
    /\ (spc \in {"scored_onnx", "scored"} /\ FiniteFields)
           => (0 <= model_pred_tar /\ model_pred_tar <= F(100))
    /\ (spc = "scored" /\ FiniteFields)
           => (0 <= model_pred_flank /\ model_pred_flank <= F(100))

\* a liquidity_score of -1000 and a gas cost of -1000: predictor A is held
\* at 0 and predictor B at 100
C8_Witness ==
    /\ spc = "scored"
    /\ entry.liquidity_score = F(-1000)
    /\ quote.gas_cost_usd = F(-1000)
    /\ model_pred_tar = 0
    /\ model_pred_flank = F(100)

(***************************************************************************)
(* C9                                                                      *)
(***************************************************************************)
\* C9 as stated: for every record and quote, token quality lies in
\* [0, 35], arbitrage efficiency in [0, 35] and risk assessment in [0, 30]
C9_PartsIndependentlyCapped ==
    (TarScored /\ FiniteFields) =>
        /\ 0 <= token_score /\ token_score <= F(35)
        /\ 0 <= arb_score /\ arb_score <= F(35)
        /\ 0 <= risk_score /\ risk_score <= F(30)

(***************************************************************************)
(* C10                                                                     *)
(***************************************************************************)
\* C10: calculate_tar_score equals min(100, T + A + R) with the ladders and
\* strict comparisons of the spec; a value on a threshold falls into the
\* lower band; the USDC/STARGATE example (liquidity 95, fee 0.1, spread
\* 1.5, slippage 0.3) scores exactly 94.25
C10_TarScoreMatchesLadders ==
    (TarScored /\ entry.liquidity_score # NaN) =>
        /\ score = IF TarSumRef > F(100) THEN F(100) ELSE TarSumRef
        /\ (entry.fee_tier = F100(15) /\ quote.spread_percentage = F100(200))
               => arb_score = F(10 + 15)
        /\ (entry.fee_tier = F100(30) /\ quote.spread_percentage = F100(100))
               => arb_score = F(5 + 10)
        /\ (entry.fee_tier = F100(50) /\ quote.spread_percentage = F100(50))
               => arb_score = F(0 + 5)
        /\ (entry.fee_tier = F100(50) /\ quote.spread_percentage = F100(20))
               => arb_score = 0
        /\ (entry.bridge_protocol = "STARGATE"
                /\ quote.slippage_estimate = F100(50))
               => risk_score = F(15 + 10)
        /\ (entry.bridge_protocol = "STARGATE"
                /\ quote.slippage_estimate = F100(100))
               => risk_score = F(15 + 5)
        /\ (entry.bridge_protocol = "STARGATE"
                /\ quote.slippage_estimate = F100(200))
               => risk_score = F(15)
        /\ (/\ entry.native_token = "USDC"
            /\ entry.bridge_protocol = "STARGATE"
            /\ entry.liquidity_score = F(95)
            /\ entry.fee_tier = F100(10)
            /\ quote.spread_percentage = F100(150)
            /\ quote.slippage_estimate = F100(30))
               => score = F100(9425)

\* the USDC/STARGATE example, scored 94.25
C10_Witness ==
    /\ TarScored
    /\ entry.native_token = "USDC"
    /\ entry.bridge_protocol = "STARGATE"
    /\ entry.liquidity_score = F(95)
    /\ entry.fee_tier = F100(10)
    /\ quote.spread_percentage = F100(150)
    /\ quote.slippage_estimate = F100(30)
    /\ token_score = F100(3425)
    /\ arb_score = F(30)
    /\ risk_score = F(30)
    /\ score = F100(9425)

(***************************************************************************)
(* Pipeline claims                                                         *)
(***************************************************************************)
\* the filter has run: top_opportunities is the ranked output
Ranked == epc \in {"filtered", "sorted", "done"}

\* a record one of whose numeric fields is NaN
NaNBearing(rec) == is_nan(rec.liquidity_score) \/ is_nan(rec.fee_tier)

(***************************************************************************)
(* C11                                                                     *)
(***************************************************************************)
\* C11 as stated: a route whose record carries a NaN liquidity_score or
\* fee_tier never passes the tar_score filter, so it is not in the ranked
\* output and is never ranked first
C11_NaNRoutesExcluded ==
    Ranked =>
        \A i \in 1..Len(top_opportunities) :
            ~NaNBearing(top_opportunities[i].entry)

Passing == {i \in 1..Len(scored_routes) : scored_routes[i].score >= F(85)}

\* C13: the ranked output holds exactly the routes with tar_score >= 85.0,
\* each once (85.0 itself is kept), in non-increasing tar_score order; the
\* presented list is its first min(10, size) routes, so that no unpresented
\* route has a higher tar_score than a presented one
C13_RankedOutputIsFilteredSortedTop10 ==
    epc = "done" =>
        LET n == Len(top_opportunities)
            shown == IF n < 10 THEN n ELSE 10
        IN  /\ {top_opportunities[k].idx : k \in 1..n} = Passing
            /\ n = Cardinality(Passing)
            /\ \A k \in 1..n :
                   top_opportunities[k] =
                       scored_routes[top_opportunities[k].idx]
            /\ \A i, j \in 1..n :
                   i < j => top_opportunities[i].score
                                >= top_opportunities[j].score
            /\ Len(presented) = shown
            /\ \A k \in 1..shown : presented[k] = top_opportunities[k]
            /\ \A u \in (shown + 1)..n, k \in 1..shown :
                   top_opportunities[u].score <= presented[k].score

\* twelve or more routes pass, one of them with exactly 85.0, others are
\* dropped, and the two routes left unpresented score less than the first
C13_Witness ==
    /\ epc = "done"
    /\ Len(top_opportunities) > 11
    /\ Len(scored_routes) > Len(top_opportunities)
    /\ Len(presented) = 10
    /\ \E k \in 1..Len(top_opportunities) :
           top_opportunities[k].score = F(85)
    /\ top_opportunities[11].score < presented[1].score

(***************************************************************************)
(* C14                                                                     *)
(***************************************************************************)
\* the sum of the tar_scores of a set of positions of scored_routes
RECURSIVE ScoreSumOver(_)
ScoreSumOver(positions) ==
    IF positions = {} THEN 0
    ELSE LET pos == CHOOSE x \in positions : TRUE
         IN  scored_routes[pos].score + ScoreSumOver(positions \ {pos})

\* C14: the statistics are those of the whole filtered set, not of the ten
\* routes shown: the count is its size, and the mean is the sum of its
\* tar_scores divided by that count (to the 1/FScale the scores are
\* counted in), or 0.0 when the set is empty
C14_StatsOverFilteredSet ==
    epc = "done" =>
        /\ stat_count = Cardinality(Passing)
        /\ Passing = {} => stat_mean = 0
        /\ Passing # {} =>
               /\ stat_count * stat_mean <= ScoreSumOver(Passing)
               /\ ScoreSumOver(Passing) < stat_count * (stat_mean + 1)

\* more than ten routes pass and the ones not shown pull the mean below
\* every score shown
C14_Witness ==
    /\ epc = "done"
    /\ stat_count > 10
    /\ Len(presented) = 10
    /\ stat_mean < presented[10].score

\* no route passes: count 0 and mean 0.0
C14_WitnessEmpty ==
    /\ epc = "done"
    /\ scored_routes # <<>>
    /\ stat_count = 0
    /\ stat_mean = 0


(***************************************************************************)
(* Claims about load_token_matrix                                          *)
(***************************************************************************)
\* a line containing the marker text is a marker line; a data row is a line
\* after the first marker line that is not itself a marker line, is not
\* blank, does not begin with '#' or the header text, and has 8 fields
MarkerBefore(mb_lines, mb_k) ==
    \E m \in 1..(mb_k - 1) : contains_marker(trim(mb_lines[m]))

DataRowAt(dr_lines, dr_k) ==
    /\ MarkerBefore(dr_lines, dr_k)
    /\ ~contains_marker(trim(dr_lines[dr_k]))
    /\ ~is_empty(trim(dr_lines[dr_k]))
    /\ ~starts_with_hash_or_header(trim(dr_lines[dr_k]))
    /\ Len(trim(dr_lines[dr_k])) = 8

RECURSIVE DataRowsUpTo(_, _)
DataRowsUpTo(du_lines, du_n) ==
    IF du_n = 0 THEN <<>>
    ELSE IF DataRowAt(du_lines, du_n)
    THEN Append(DataRowsUpTo(du_lines, du_n - 1), trim(du_lines[du_n]))
    ELSE DataRowsUpTo(du_lines, du_n - 1)

EntriesOfRows(er_rows) == [i \in 1..Len(er_rows) |-> row_entry(er_rows[i])]

C15_WitnessNineFields ==
    /\ load_result.kind = "ok"
    /\ Len(file_lines) = 3
    /\ contains_marker(file_lines[1])
    /\ Len(file_lines[2]) = 9
    /\ Len(load_result.entries) = 1


\* the four numeric columns of a row, in the order they are parsed
NumericFields ==
    <<[name |-> "chain_origin", col |-> 1, int |-> TRUE],
      [name |-> "chain_dest", col |-> 2, int |-> TRUE],
      [name |-> "liquidity_score", col |-> 7, int |-> FALSE],
      [name |-> "fee_tier", col |-> 8, int |-> FALSE]>>

StringFields ==
    <<[name |-> "native_token", col |-> 3],
      [name |-> "dex_origin", col |-> 4],
      [name |-> "dex_dest", col |-> 5],
      [name |-> "bridge_protocol", col |-> 6]>>

FieldParse(fp_row, fp_field) ==
    IF fp_field.int THEN parse_u64(fp_row[fp_field.col])
    ELSE parse_f64(fp_row[fp_field.col])

FailedFields(ff_row) ==
    {j \in 1..4 : ~FieldParse(ff_row, NumericFields[j]).ok}

RECURSIVE FailCount(_, _)
FailCount(fc_rows, fc_n) ==
    IF fc_n = 0 THEN 0
    ELSE FailCount(fc_rows, fc_n - 1) + Cardinality(FailedFields(fc_rows[fc_n]))

\* C16: every accepted 8-field row has its entry; each numeric field of the
\* entry is the parsed value of its own column when that column parses and
\* the default 0 (0.0) when it does not, whatever the other columns do; the
\* four text fields are the row's; and one warning naming the field and its
\* text is emitted for each column that failed, and no other warning.
C16_FieldDefaultsAreIndependent ==
    lpc \in {"reading", "done"} =>
      LET rows == DataRowsUpTo(file_lines, lines_read)
      IN  /\ Len(entries) = Len(rows)
          /\ \A k \in 1..Len(rows) :
                /\ \A j \in 1..4 :
                      LET field == NumericFields[j]
                          parsed == FieldParse(rows[k], field)
                      IN  /\ parsed.ok =>
                                entries[k][field.name] = parsed.value
                          /\ ~parsed.ok =>
                                /\ entries[k][field.name] = 0
                                /\ \E w \in 1..Len(warnings) :
                                      /\ warnings[w].name = field.name
                                      /\ warnings[w].text = rows[k][field.col]
                /\ \A j \in 1..4 :
                      entries[k][StringFields[j].name] =
                          rows[k][StringFields[j].col]
          /\ Len(warnings) = FailCount(rows, Len(rows))

\* a row whose liquidity score alone is unparsable is returned with
\* liquidity_score 0.0, its other fields parsed, and one warning
C16_Witness ==
    /\ load_result.kind = "ok"
    /\ Len(load_result.entries) = 1
    /\ load_result.entries[1].chain_origin = 1
    /\ load_result.entries[1].chain_dest = 137
    /\ load_result.entries[1].liquidity_score = 0
    /\ load_result.entries[1].fee_tier = F100(30)
    /\ warnings = <<[name |-> "liquidity_score", text |-> "abc"]>>

\* a row whose four numeric fields are all unparsable is still returned
C16_WitnessAllDefaults ==
    /\ load_result.kind = "ok"
    /\ Len(load_result.entries) = 1
    /\ Len(warnings) = 4
    /\ load_result.entries[1].chain_origin = 0
    /\ load_result.entries[1].fee_tier = 0


NoValidEntries == LoadErr("No valid entries found in matrix file")
IoErrors == {LoadErr("Failed to open matrix file"), LoadErr("Failed to read line")}

\* C17: a finished call has one of three outcomes. It fails with the
\* no-valid-entries error exactly when the whole file was processed and no
\* row was accepted; it succeeds exactly when the whole file was processed
\* and some row was accepted; and any other failure is an I/O error raised
\* before any row is parsed, so no row has been accepted when it is raised.
C17_FailuresAreEmptinessOrEarlyIo ==
    lpc = "done" =>
      /\ load_result = NoValidEntries =>
            /\ lines_read = Len(file_lines)
            /\ DataRowsUpTo(file_lines, Len(file_lines)) = <<>>
      /\ load_result.kind = "ok" =>
            /\ lines_read = Len(file_lines)
            /\ load_result.entries # <<>>
      /\ (load_result.kind = "err" /\ load_result # NoValidEntries) =>
            /\ load_result \in IoErrors
            /\ entries = <<>>


(***************************************************************************)
(* Claims about the synthetic quotes                                       *)
(***************************************************************************)
NonNegativeQuote(nq_quote) ==
    /\ f64_ge(nq_quote.spread_percentage, 0)
    /\ f64_ge(nq_quote.slippage_estimate, 0)
    /\ f64_ge(nq_quote.gas_cost_usd, 0)
    /\ f64_ge(nq_quote.available_liquidity, 0)

\* C18: every quote fetched for a route record has spread_percentage >= 0,
\* slippage_estimate >= 0, gas_cost_usd >= 0 and available_liquidity >= 0.
C18_QuoteFieldsNonNegative ==
    \A i \in 1..Len(live_quotes) : NonNegativeQuote(live_quotes[i])


\* C19: the quotes fetched are as many as the entries and the i-th quote is
\* the quote of the i-th entry; the routes scored are as many again, and the
\* i-th route holds the i-th entry with the three scores computed from that
\* entry and its own quote.
C19_QuotesPairedByPosition ==
    /\ epc # "loaded" =>
          /\ Len(live_quotes) = Len(token_matrix)
          /\ \A i \in 1..Len(token_matrix) :
                live_quotes[i] = simulate_bridge_quote(token_matrix[i])
    /\ epc = "scored" =>
          /\ Len(scored_routes) = Len(token_matrix)
          /\ \A i \in 1..Len(token_matrix) :
                LET own_quote == simulate_bridge_quote(token_matrix[i])
                IN  /\ scored_routes[i].entry = token_matrix[i]
                    /\ scored_routes[i].score =
                          calculate_tar_score(token_matrix[i], own_quote)
                    /\ scored_routes[i].model_pred_tar =
                          run_tar_onnx(token_matrix[i], own_quote)
                    /\ scored_routes[i].model_pred_flank =
                          run_flanker(token_matrix[i], own_quote)

\* routes scored from a matrix whose first and last entries have different
\* quotes and different scores
C19_Witness ==
    /\ epc = "scored"
    /\ Len(scored_routes) >= 3
    /\ live_quotes[1] # live_quotes[Len(live_quotes)]
    /\ scored_routes[1].score # scored_routes[Len(scored_routes)].score


(***************************************************************************)
(* Claims about the HTTP handlers                                          *)
(***************************************************************************)
\* what the interface takes: a chain id of the configuration, an address of
\* 40 hexadecimal digits, a target amount written in decimal digits
SupportedChain(sc_chain_id) == sc_chain_id \in DOMAIN app_config.chains

WellFormedAddress(wa_str) ==
    wa_str \in {UsdcAddress, UsdcAddressBare, AaveV3Pool, BALANCER_V3_VAULT}

DecimalString(ds_str) ==
    /\ Len(ds_str) > 0
    /\ \A i \in 1..Len(ds_str) : \E d \in 1..10 : DecDigits[d] = ds_str[i]

ClientFault(cf_request) ==
    \/ ~SupportedChain(cf_request.chain_id)
    \/ ~WellFormedAddress(cf_request.token_address)
    \/ /\ cf_request.endpoint = "tvl"
       /\ cf_request.lender_address.some
       /\ ~WellFormedAddress(cf_request.lender_address.text)
    \/ /\ cf_request.endpoint = "optimize_loan"
       /\ ~DecimalString(cf_request.target_amount)

ResponseValue == IF request.endpoint = "tvl" THEN response.tvl
                 ELSE response.optimized_amount

\* C20: a request whose chain id is unsupported, or whose token address,
\* lender address or target amount is malformed, is answered by either
\* endpoint with a client error (success = false, an error message, the
\* amount or TVL "0"), and no liquidity read is made for it.
C20_ClientFaultsAnsweredWithoutRead ==
    (request # None /\ ClientFault(request)) =>
        /\ hpc = "responded"
        /\ response.status = BAD_REQUEST
        /\ response.success = FALSE
        /\ response.error.some
        /\ ResponseValue = <<"0">>
        /\ liquidity_reads = 0
        /\ reads = 0
        /\ pc = "idle"


TvlAnswered == hpc = "responded" /\ request.endpoint = "tvl"

\* C21: on the TVL-query endpoint a liquidity read that failed is answered
\* with a server error and success = false, and a successful answer with
\* TVL "0" is given only when the read succeeded with a balance of zero.
C21_FailedReadIsServerError ==
    (TvlAnswered /\ liquidity_reads = 1) =>
        /\ ~read_outcome.ok =>
              /\ response.status = INTERNAL_SERVER_ERROR
              /\ response.success = FALSE
        /\ (response.success /\ response.tvl = <<"0">>) =>
              /\ read_outcome.ok
              /\ read_outcome.balance = <<>>


\* optimize_loan_size ran for the request in hand and its answer was sent
LoanSized ==
    /\ hpc = "responded"
    /\ request.endpoint = "optimize_loan"
    /\ liquidity_reads = 1

ReadGaveNoData == ~read_outcome.ok \/ read_outcome.balance = <<>>
RequestedAmount == parse_U256(request.target_amount).value
RequestFloor == calculate_min_floor(request.decimals).v

\* C22: when the sizing of a request is answered, the answer is a success
\* (status 200, success = true, no error message) whatever the outcome. If
\* the liquidity read failed or returned zero the amount is the requested
\* one, or "0" when that is below the floor; after a read with data a
\* request below the floor is answered "0", and any other amount is the
\* requested one or the cap.
C22_BusinessOutcomesAreSuccesses ==
    LoanSized =>
        /\ response.status = OK
        /\ response.success = TRUE
        /\ response.error = NoString
        /\ ReadGaveNoData =>
              response.optimized_amount =
                  IF BigLt(RequestedAmount, RequestFloor) THEN <<"0">>
                  ELSE U256_to_string(RequestedAmount)
        /\ ~ReadGaveNoData =>
              /\ BigLt(RequestedAmount, RequestFloor) =>
                    response.optimized_amount = <<"0">>
              /\ response.optimized_amount \in
                    {<<"0">>, U256_to_string(RequestedAmount),
                     U256_to_string(calculate_max_cap(max_tvl_share,
                                        read_outcome.balance).v)}

\* a request sized in paper mode after a failed read, answered with its amount
C22_Witness ==
    /\ LoanSized
    /\ ~read_outcome.ok
    /\ response.success
    /\ response.optimized_amount # <<"0">>

\* a request rejected below the floor after a read with data
C22_WitnessRejected ==
    /\ LoanSized
    /\ ~ReadGaveNoData
    /\ response.success
    /\ response.optimized_amount = <<"0">>


RECURSIVE DecimalValue(_, _)
\* the integer the first dv_n decimal digits of dv_str denote
DecimalValue(dv_str, dv_n) ==
    IF dv_n = 0 THEN <<>>
    ELSE BigAdd(BigMul(DecimalValue(dv_str, dv_n - 1), BigFromInt(10)),
                BigFromInt((CHOOSE d \in 1..10 : DecDigits[d] = dv_str[dv_n]) - 1))

Denotes(dn_str) == DecimalValue(dn_str, Len(dn_str))

\* the sizing returned the amount it was given: not scaled, not rejected
AcceptedUnchanged ==
    /\ LoanSized
    /\ RequestedAmount # <<>>
    /\ response.optimized_amount = U256_to_string(RequestedAmount)

\* C23: when a request whose target_amount is a decimal string is accepted
\* unchanged, the optimized_amount of the answer is a decimal string that
\* denotes the same integer as the target_amount of the request.
C23_DecimalRoundTrip ==
    (AcceptedUnchanged /\ DecimalString(request.target_amount)) =>
        /\ DecimalString(response.optimized_amount)
        /\ Denotes(response.optimized_amount) = Denotes(request.target_amount)


(***************************************************************************)
(* Claims about the sizing path as a whole                                 *)
(***************************************************************************)
\* C24: an invocation of optimize_loan_size is suspended at one place only,
\* its liquidity read. Up to that place no read has been made and neither
\* the cap nor the result is decided; once it resumes exactly one read has
\* been made, still before any decision; and when it has returned or
\* panicked exactly one read has been made.
C24_OneReadBeforeAnyDecision ==
    /\ pc \in {"idle", "await_tvl", "resumed", "returned", "panicked"}
    /\ pc = "idle" => reads = 0
    /\ pc = "await_tvl" =>
          /\ reads = 0 /\ balance_call = None /\ tvl = None
          /\ max_cap = None /\ result = None
    /\ pc = "resumed" =>
          /\ reads = 1 /\ balance_call # None /\ tvl # None
          /\ max_cap = None /\ result = None
    /\ pc \in {"returned", "panicked"} =>
          /\ reads = 1 /\ balance_call # None
          /\ result # None

\* a call that returned a capped amount after its one read
C24_Witness ==
    /\ pc = "returned"
    /\ reads = 1
    /\ balance_call.ok
    /\ max_cap # None
    /\ result.outcome = "Ok"
    /\ result.amount # <<>>


(***************************************************************************)
(* Claims about the provider cache                                         *)
(***************************************************************************)
CreatedFor(cf_chain_id) ==
    {i \in 1..Len(created) : created[i].chain_id = cf_chain_id}

\* C25: whatever the interleaving of the tasks calling get_provider, at
\* most one provider is created for a chain id, the map holds that
\* provider for the chain id, and every caller given a provider for the
\* chain id is given that one.
C25_OneProviderPerChain ==
    /\ \A c \in ManagerChainSample : Cardinality(CreatedFor(c)) <= 1
    /\ \A c \in DOMAIN providers : CreatedFor(c) = {providers[c]}
    /\ \A t \in Tasks :
          (task[t].pc \in {"release", "done"} /\ task[t].got.ok) =>
              CreatedFor(task[t].chain_id) = {task[t].got.id}

\* two tasks were waiting for the lock at once for a chain id not yet in
\* the map; both have been served, with the same provider
C25_Witness ==
    \E t1, t2 \in Tasks :
        /\ t1 # t2
        /\ task[t1].pc = "done" /\ task[t2].pc = "release"
        /\ task[t1].chain_id = task[t2].chain_id
        /\ task[t1].rpc_url # task[t2].rpc_url
        /\ task[t1].got.ok /\ task[t2].got.ok
        /\ task[t1].got.id = task[t2].got.id
        /\ Len(created) = 1


\* C26: from the start of a sizing call until it has returned, also while
\* it is suspended on the liquidity read, no step changes a guardrail
\* parameter; and the cap the call computes is the cap for the
\* max_tvl_share it started with.
C26_GuardrailsFrozenDuringCall ==
    [][/\ pc \in {"await_tvl", "resumed", "returned", "panicked"} =>
             /\ max_tvl_share' = max_tvl_share
             /\ min_loan_usd' = min_loan_usd
             /\ slippage_tolerance' = slippage_tolerance
       /\ (pc = "resumed" /\ max_cap' # None) =>
             max_cap' = calculate_max_cap(max_tvl_share, tvl.v)]_vars

\* a call that computed its cap with a share set before it started
C26_Witness ==
    /\ pc = "returned"
    /\ max_cap # None
    /\ max_tvl_share = 10000000
    /\ ~max_cap.panic
    /\ max_cap.v = tvl.v


(***************************************************************************)
(* Claims about reproducibility                                            *)
(***************************************************************************)
SamePair(sp_i, sp_j) ==
    /\ token_matrix[sp_i] = token_matrix[sp_j]
    /\ live_quotes[sp_i] = live_quotes[sp_j]

FloorOfDecimals ==
    [d \in DecimalsSample |->
        U256_mul(U256Ok(BigFromInt(500)), U256_exp10(d))]

FloorChecked(fk_amount, fk_dec) ==
    IF FloorOfDecimals[fk_dec].panic THEN SizedPanic
    ELSE IF BigLt(fk_amount, FloorOfDecimals[fk_dec].v) THEN SizedOk(<<>>)
    ELSE SizedOk(fk_amount)

SizingOf(so_target, so_dec, so_call, so_share) ==
    IF ~so_call.ok \/ so_call.balance = <<>>
    THEN FloorChecked(so_target, so_dec)
    ELSE LET cap == calculate_max_cap(so_share, so_call.balance)
         IN  IF cap.panic THEN SizedPanic
             ELSE FloorChecked(BigMin(so_target, cap.v), so_dec)

\* C28: whatever set_min_loan_usd and set_slippage_tolerance calls came
\* before, the outcome of optimize_loan_size is the one determined by the
\* requested amount, the decimals, the liquidity read and max_tvl_share.
C28_ResultIgnoresMinLoanAndSlippage ==
    pc \in {"returned", "panicked"} =>
        result = SizingOf(target_amount_raw, decimals, balance_call,
                          max_tvl_share)

\* with min_loan_usd and slippage_tolerance both changed, a request of
\* exactly 500 units is still returned unchanged
C28_Witness ==
    /\ pc = "returned"
    /\ min_loan_usd = 50000
    /\ slippage_tolerance = 9900
    /\ decimals = 0
    /\ target_amount_raw = BigFromInt(500)
    /\ result = SizedOk(BigFromInt(500))


ShareInUnitInterval == max_tvl_share > 0 /\ max_tvl_share <= ShareScale

\* C29: with max_tvl_share in (0, 1], the amount a sizing call returns is
\* at most the amount requested, and a call with the same liquidity
\* reading and decimals on a nonzero returned amount returns that amount.
C29_SizingIdempotentNeverEnlarges ==
    (pc = "returned" /\ ShareInUnitInterval) =>
        /\ BigLe(result.amount, target_amount_raw)
        /\ result.amount # <<>> =>
              optimize_loan_size(max_tvl_share, tvl, result.amount, decimals)
                  = SizedOk(result.amount)

\* a request scaled down to the cap, which is returned again when fed back
C29_Witness ==
    /\ pc = "returned"
    /\ ShareInUnitInterval
    /\ max_cap # None
    /\ result.amount # <<>>
    /\ result.amount = max_cap.v
    /\ BigLt(result.amount, target_amount_raw)


\* the loan endpoint in a process where commanders exist elsewhere too: the
\* setters run on a commander that no sizing call borrows, between and
\* around the requests
SettersRequestSample ==
    {r \in LoanOptimizeRequestSample :
        /\ r.token_address \in {UsdcAddress, "USDC"}
        /\ r.target_amount \in { <<"1", "0", "0", "0">>,
                                 <<"5", "0", "0", "0", "0", "0">>,
                                 <<"f", "f">>, <<"z", "z">> }
        /\ r.decimals \in {0, 75}}

NextHttpSetters ==
    \/ \E ol_req \in SettersRequestSample : OptimizeLoan(ol_req)
    \/ \E call \in BalanceCallOutcomes : GetProviderTvl(call)
    \/ OptimizeLoanSizeResume
    \/ OptimizeLoanRespond
    \/ OptimizeLoanAborts
    \/ \E m \in MinLoanSample : set_min_loan_usd(m)
    \/ \E s \in ShareSample : set_max_tvl_share(s)
    \/ \E t \in SlippageSample : set_slippage_tolerance(t)

SpecHttpSetters == InitHttp /\ [][NextHttpSetters]_vars

DefaultGuardrails ==
    /\ max_tvl_share = 2000000
    /\ min_loan_usd = 10000
    /\ slippage_tolerance = 9950

\* the sizing of a request as a function of the request and of the outcome
\* of its liquidity read, under the default max_tvl_share
RequestSizing(rs_request, rs_call) ==
    SizingOf(parse_U256(rs_request.target_amount).value, rs_request.decimals,
             rs_call, 2000000)

\* the answer to a loan request as a function of the configuration the
\* server started with, the request and the outcome of its liquidity read
LoanAnswerOf(la_request, la_call) ==
    LET checks == optimize_loan_checks(ConfigSample, la_request)
    IN  IF checks.done THEN checks.response
        ELSE optimize_loan_answer(RequestSizing(la_request, la_call).amount)

\* C30: every loan request is sized by a commander with the default
\* guardrails (0.20, 10000, 0.995), the shared AppState (configuration and
\* provider cache) stays as the server started with it, and the answer is
\* the one determined by the request and its liquidity read alone, whatever
\* requests and setter calls came before.
C30_LoanEndpointStateless ==
    /\ app_config = ConfigSample
    /\ ManagerIdle
    /\ hpc = "loan_await" => DefaultGuardrails
    /\ (hpc = "responded" /\ request.endpoint = "optimize_loan") =>
          response = LoanAnswerOf(request, read_outcome)
    /\ (hpc = "aborted" /\ request.endpoint = "optimize_loan") =>
          RequestSizing(request, read_outcome).outcome = "Panic"

\* a request answered with the cap of 20% of the liquidity read, in a
\* process where a setter has since moved max_tvl_share
C30_Witness ==
    /\ hpc = "responded"
    /\ request.endpoint = "optimize_loan"
    /\ liquidity_reads = 1
    /\ response.success
    /\ read_outcome.ok
    /\ response.optimized_amount =
          U256_to_string(calculate_max_cap(2000000, read_outcome.balance).v)
    /\ response.optimized_amount # request.target_amount
    /\ response.optimized_amount # <<"0">>
    /\ max_tvl_share # 2000000

=============================================================================
